---- MODULE Spec2Model ----
(***************************************************************************)
(* Contour-generation web worker (src/unnamed/part_001).                   *)
(*                                                                         *)
(* The worker receives a message, and for 'generate-contours' runs the     *)
(* pipeline blur -> range -> levels -> per level (trace, merge, simplify,  *)
(* smooth) -> feature collection.                                          *)
(*                                                                         *)
(* Numbers.  JavaScript numbers are modelled as exact rationals <<n, d>>   *)
(* with d > 0 in lowest terms.  <<0, 0>> is the no-data marker null and    *)
(* <<1, 0>> is NaN.  Distances are compared through their squares (sqrt    *)
(* is monotone), so Math.sqrt never has to be evaluated.                   *)
(***************************************************************************)
EXTENDS Integers, Sequences, FiniteSets, TLC

VARIABLES
    pc,            \* position of the worker in its handler
    msg,           \* the message being handled: [type, payload]
    outbox,        \* messages posted while handling msg
    processedGrid, \* generateContours: processedGrid
    blurI,         \* generateContours: the blur loop's i
    minZ, maxZ,    \* generateContours: elevation range
    levels,        \* generateContours: levels
    elev,          \* generateContours: the level loop's elev
    levelIdx,      \* generateContours: index of the level being traced
    features,      \* generateContours: features
    isoValue,      \* traceContoursAtLevel: isoValue
    visited,       \* traceContoursAtLevel: visited (set of edge keys)
    lines,         \* traceContoursAtLevel: lines
    row, col,      \* traceContoursAtLevel: the cell loops' row, col
    pendingKeys,   \* traceContoursAtLevel: edge keys the for-of loop has left
    trow, tcol,    \* traceContourFromEdge: row, col
    entryEdge,     \* traceContourFromEdge: entryEdge
    line,          \* traceContourFromEdge: line
    iterations,    \* traceContourFromEdge: iterations
    lineEdges,     \* history: the grid edge each point of line lies on
    linesEdges,    \* history: lineEdges of every line kept in lines
    stops,         \* history: why each finished trace stopped
    mLines,        \* stitcher harness: the input lines
    mThreshold,    \* stitcher harness: the threshold
    mOnce,         \* stitcher harness: mergeLineEndpoints(mLines, t)
    mTwice,        \* stitcher harness: mergeLineEndpoints(mOnce, t)
    rPoints,       \* refiner harness: the input line
    rTolerance,    \* refiner harness: the tolerance
    rSimplified,   \* refiner harness: simplifyDouglasPeucker(rPoints, t)
    rSmoothed,     \* refiner harness: rPoints after rIterations smoothings
    rIterations    \* refiner harness: calls of smoothChaikin so far

vars == <<pc, msg, outbox, processedGrid, blurI, minZ, maxZ, levels, elev,
          levelIdx, features, isoValue, visited, lines, row, col, pendingKeys,
          trow, tcol, entryEdge, line, iterations, lineEdges, linesEdges,
          stops, mLines, mThreshold, mOnce, mTwice, rPoints, rTolerance,
          rSimplified, rSmoothed, rIterations>>

(***************************************************************************)
(* Exact arithmetic standing for JavaScript numbers                        *)
(***************************************************************************)
NULL == <<0, 0>>
NaN == <<1, 0>>
IsNum(v) == v[2] # 0

Abs(x) == IF x < 0 THEN -x ELSE x

RECURSIVE GCD(_, _)
GCD(a, b) == IF b = 0 THEN a ELSE GCD(b, a % b)

Rat(n, d) ==
    LET g == GCD(Abs(n), Abs(d))
        s == IF d < 0 THEN -1 ELSE 1
    IN  <<(s * n) \div g, (s * d) \div g>>

RInt(n) == <<n, 1>>

\* sums, products and comparisons cancel common factors first, which keeps
\* the intermediate integers small
RAdd(a, b) ==
    LET g == GCD(a[2], b[2])
    IN  Rat(a[1] * (b[2] \div g) + b[1] * (a[2] \div g), (a[2] \div g) * b[2])
RNeg(a) == <<-a[1], a[2]>>
RSub(a, b) == RAdd(a, RNeg(b))
RMul(a, b) ==
    LET g1 == GCD(Abs(a[1]), b[2])
        g2 == GCD(Abs(b[1]), a[2])
    IN  Rat((a[1] \div g1) * (b[1] \div g2), (a[2] \div g2) * (b[2] \div g1))
RInv(a) == IF a[1] < 0 THEN <<-a[2], -a[1]>> ELSE <<a[2], a[1]>>
RDiv(a, b) == RMul(a, RInv(b))
RLt(a, b) ==
    LET g == GCD(a[2], b[2])
    IN  a[1] * (b[2] \div g) < b[1] * (a[2] \div g)
RLe(a, b) ==
    LET g == GCD(a[2], b[2])
    IN  a[1] * (b[2] \div g) <= b[1] * (a[2] \div g)
RGe(a, b) == RLe(b, a)
RGt(a, b) == RLt(b, a)
RFloor(a) == a[1] \div a[2]
RCeil(a) == -((-a[1]) \div a[2])
RMin(a, b) == IF RLe(a, b) THEN a ELSE b
RMax(a, b) == IF RGe(a, b) THEN a ELSE b

(***************************************************************************)
(* IEEE-754 double arithmetic, for the places where rounding decides what  *)
(* the code does: the level loop with an interval that is not an integer   *)
(* (elev += interval), and the distances the simplifier compares.          *)
(*                                                                         *)
(* A natural number of any size is a sequence of limbs, least significant  *)
(* first, each below LIMB, without leading zero limbs.  A double is        *)
(* <<m, e, s>> with value s * m * 2^e: the sign s is 1 or -1, and m is 0   *)
(* (then e = 0, s = 1) or has exactly MantBits bits.  Every operation      *)
(* computes the exact result and rounds it to the nearest double, ties to  *)
(* even.                                                                   *)
(***************************************************************************)
LimbBits == 15
LIMB == 2 ^ LimbBits
MantBits == 53

RECURSIVE BTrim(_)
BTrim(a) ==
    IF a = <<>> THEN <<>>
    ELSE IF a[Len(a)] = 0 THEN BTrim(SubSeq(a, 1, Len(a) - 1))
    ELSE a

RECURSIVE BFromInt(_)
BFromInt(n) == IF n = 0 THEN <<>> ELSE <<n % LIMB>> \o BFromInt(n \div LIMB)

RECURSIVE BToInt(_)
BToInt(a) == IF a = <<>> THEN 0 ELSE a[1] + LIMB * BToInt(Tail(a))

RECURSIVE BAddC(_, _, _)
BAddC(a, b, carry) ==
    IF a = <<>> /\ b = <<>> THEN (IF carry = 0 THEN <<>> ELSE <<carry>>)
    ELSE LET x == IF a = <<>> THEN 0 ELSE a[1]
             y == IF b = <<>> THEN 0 ELSE b[1]
             t == x + y + carry
         IN  <<t % LIMB>> \o BAddC(IF a = <<>> THEN a ELSE Tail(a),
                                   IF b = <<>> THEN b ELSE Tail(b),
                                   t \div LIMB)
BAdd(a, b) == BAddC(a, b, 0)

\* a - b for a >= b
RECURSIVE BSubB(_, _, _)
BSubB(a, b, borrow) ==
    IF a = <<>> THEN <<>>
    ELSE LET y == IF b = <<>> THEN 0 ELSE b[1]
             t == a[1] - y - borrow
         IN  <<t % LIMB>> \o BSubB(Tail(a), IF b = <<>> THEN b ELSE Tail(b),
                                   IF t < 0 THEN 1 ELSE 0)
BSub(a, b) == BTrim(BSubB(a, b, 0))

\* -1, 0, 1 as a < b, a = b, a > b
RECURSIVE BCmpFrom(_, _, _)
BCmpFrom(a, b, i) ==
    IF i = 0 THEN 0
    ELSE IF a[i] < b[i] THEN -1
    ELSE IF a[i] > b[i] THEN 1
    ELSE BCmpFrom(a, b, i - 1)
BCmp(a, b) ==
    IF Len(a) < Len(b) THEN -1
    ELSE IF Len(a) > Len(b) THEN 1
    ELSE BCmpFrom(a, b, Len(a))

\* a * k + carry for 0 <= k < LIMB
RECURSIVE BMulSmall(_, _, _)
BMulSmall(a, k, carry) ==
    IF a = <<>> THEN (IF carry = 0 THEN <<>> ELSE <<carry>>)
    ELSE LET t == a[1] * k + carry
         IN  <<t % LIMB>> \o BMulSmall(Tail(a), k, t \div LIMB)

RECURSIVE BMul(_, _)
BMul(a, b) ==
    IF a = <<>> \/ b = <<>> THEN <<>>
    ELSE BTrim(BAdd(BMulSmall(a, b[1], 0), <<0>> \o BMul(a, Tail(b))))

\* a * 2^k
BShl(a, k) ==
    IF a = <<>> THEN <<>>
    ELSE [i \in 1 .. (k \div LimbBits) |-> 0]
             \o BMulSmall(a, 2 ^ (k % LimbBits), 0)

\* floor(a / 2^k)
BShr(a, k) ==
    LET q == k \div LimbBits
        j == k % LimbBits
        n == Len(a) - q
        limb(i) == IF i <= Len(a) THEN a[i] ELSE 0
    IN  IF n <= 0 THEN <<>>
        ELSE BTrim([i \in 1 .. n |->
                 (limb(i + q) \div (2 ^ j))
                     + (limb(i + q + 1) % (2 ^ j)) * (2 ^ (LimbBits - j))])

RECURSIVE IntBitLen(_)
IntBitLen(n) == IF n = 0 THEN 0 ELSE 1 + IntBitLen(n \div 2)

BitLen(a) ==
    IF a = <<>> THEN 0
    ELSE LimbBits * (Len(a) - 1) + IntBitLen(a[Len(a)])

\* bit i of a, bit 0 the least significant
BBit(a, i) ==
    IF i \div LimbBits + 1 > Len(a) THEN 0
    ELSE (a[i \div LimbBits + 1] \div (2 ^ (i % LimbBits))) % 2

\* long division, one bit of a at a time, bits i down to lo: [q, r] with
\* a = q * b + r and r < b.  The bits are taken in chunks of LimbBits, which
\* keeps the evaluation shallow.
RECURSIVE BDivBits(_, _, _, _, _)
BDivBits(a, b, i, lo, st) ==
    IF i < lo THEN st
    ELSE LET r2 == BMulSmall(st.r, 2, BBit(a, i))
             fits == BCmp(r2, b) >= 0
             q2 == BMulSmall(st.q, 2, IF fits THEN 1 ELSE 0)
         IN  IF Len(q2) >= 0
             THEN BDivBits(a, b, i - 1, lo,
                           [q |-> q2, r |-> IF fits THEN BSub(r2, b) ELSE r2])
             ELSE st

RECURSIVE BDivFrom(_, _, _, _)
BDivFrom(a, b, i, st) ==
    IF i < 0 THEN st
    ELSE LET lo == IF i >= LimbBits THEN i - LimbBits + 1 ELSE 0
             st2 == BDivBits(a, b, i, lo, st)
         IN  IF Len(st2.q) >= 0 THEN BDivFrom(a, b, lo - 1, st2) ELSE st
BDivMod(a, b) == BDivFrom(a, b, BitLen(a) - 1, [q |-> <<>>, r |-> <<>>])

\* the largest r with r * r <= n, one bit at a time from bit i down to lo
RECURSIVE BSqrtBits(_, _, _, _)
BSqrtBits(n, i, lo, r) ==
    IF i < lo THEN r
    ELSE LET t == BAdd(r, BShl(<<1>>, i))
             r2 == IF BCmp(BMul(t, t), n) <= 0 THEN t ELSE r
         IN  IF Len(r2) >= 0 THEN BSqrtBits(n, i - 1, lo, r2) ELSE r

RECURSIVE BSqrtFrom(_, _, _)
BSqrtFrom(n, i, r) ==
    IF i < 0 THEN r
    ELSE LET lo == IF i >= LimbBits THEN i - LimbBits + 1 ELSE 0
             r2 == BSqrtBits(n, i, lo, r)
         IN  IF Len(r2) >= 0 THEN BSqrtFrom(n, lo - 1, r2) ELSE r
BSqrt(n) == BSqrtFrom(n, BitLen(n) \div 2, <<>>)

IsF64(v) == Len(v) = 3
FZero == <<<<>>, 0, 1>>

\* the double nearest to s * n * 2^e, ties to even
FRound(n, e, s) ==
    IF n = <<>> THEN FZero
    ELSE LET k == BitLen(n) - MantBits
         IN  IF k <= 0 THEN <<BShl(n, -k), e + k, s>>
             ELSE LET q == BShr(n, k)
                      rem == BSub(n, BShl(q, k))
                      c == BCmp(rem, BShl(<<1>>, k - 1))
                      up == c = 1 \/ (c = 0 /\ BBit(q, 0) = 1)
                      q2 == IF up THEN BAdd(q, <<1>>) ELSE q
                  IN  IF BitLen(q2) > MantBits
                      THEN <<BShr(q2, 1), e + k + 1, s>>
                      ELSE <<q2, e + k, s>>

FMinExp(x, y) == IF x[2] <= y[2] THEN x[2] ELSE y[2]

\* the magnitude of x as a multiple of 2^e, e at most the exponent of x
FScaled(x, e) == BShl(x[1], x[2] - e)

\* -1, 0, 1 as x < y, x = y, x > y
FCmp(x, y) ==
    IF x[3] # y[3] THEN x[3]
    ELSE LET e == FMinExp(x, y)
         IN  x[3] * BCmp(FScaled(x, e), FScaled(y, e))
FLe(x, y) == FCmp(x, y) <= 0
FLt(x, y) == FCmp(x, y) < 0
FGt(x, y) == FCmp(x, y) > 0
FMin(x, y) == IF FLe(x, y) THEN x ELSE y
FMax(x, y) == IF FLe(x, y) THEN y ELSE x

FNeg(x) == IF x[1] = <<>> THEN x ELSE <<x[1], x[2], -x[3]>>

\* x + y
FAdd(x, y) ==
    LET e == FMinExp(x, y)
        a == FScaled(x, e)
        b == FScaled(y, e)
    IN  IF x[3] = y[3] THEN FRound(BAdd(a, b), e, x[3])
        ELSE IF BCmp(a, b) >= 0 THEN FRound(BSub(a, b), e, x[3])
        ELSE FRound(BSub(b, a), e, y[3])

\* x - y
FSub(x, y) == FAdd(x, FNeg(y))

\* x * y
FMul(x, y) == FRound(BMul(x[1], y[1]), x[2] + y[2], x[3] * y[3])

\* x / y for y # 0: the quotient to MantBits + 3 bits or more, and one more
\* bit that says whether the division left a remainder
FDiv(x, y) ==
    IF x[1] = <<>> THEN FZero
    ELSE LET k == MantBits + 3
             d == BDivMod(BShl(x[1], k), y[1])
             n == BAdd(BShl(d.q, 1), IF d.r = <<>> THEN <<>> ELSE <<1>>)
         IN  FRound(n, x[2] - y[2] - k - 1, x[3] * y[3])

\* Math.sqrt(x) for x >= 0: the root of the magnitude scaled to twice
\* MantBits + 3 bits or more at an even exponent, and one more bit that says
\* whether the root is inexact
FSqrt(x) ==
    IF x[1] = <<>> THEN FZero
    ELSE LET k == 2 * MantBits + 4 + (x[2] % 2)
             n == BShl(x[1], k)
             r == BSqrt(n)
             inexact == BMul(r, r) # n
         IN  FRound(BAdd(BShl(r, 1), IF inexact THEN <<1>> ELSE <<>>),
                    (x[2] - k) \div 2 - 1, 1)

\* Math.floor(x), Math.ceil(x) as integers
FIsInteger(x) ==
    x[2] >= 0 \/ BShl(BShr(x[1], -x[2]), -x[2]) = x[1]
FTrunc(x) ==
    IF x[2] >= 0 THEN BToInt(BShl(x[1], x[2]))
    ELSE BToInt(BShr(x[1], -x[2]))
FFloor(x) ==
    IF x[3] = 1 \/ FIsInteger(x) THEN x[3] * FTrunc(x)
    ELSE -(FTrunc(x) + 1)
FCeil(x) ==
    IF x[3] = -1 \/ FIsInteger(x) THEN x[3] * FTrunc(x)
    ELSE FTrunc(x) + 1

\* the double of an integer n, of the decimal literal n / d, and of 2^k
FFromInt(n) == FRound(BFromInt(Abs(n)), 0, IF n < 0 THEN -1 ELSE 1)
FDec(n, d) == FDiv(FFromInt(n), FFromInt(d))
FPow2(k) == FRound(<<1>>, k, 1)
FOne == FFromInt(1)

(***************************************************************************)
(* Grids: a sequence of rows; At reads grid[r][c] with 0-based r, c        *)
(***************************************************************************)
At(g, r, c) == g[r + 1][c + 1]
IsValid(v) == IsNum(v)

ZERO == RInt(0)

\* blurGrid: the 3x3 kernel, kernel[kr + 1][kc + 1] for kr, kc in -1..1
kernel(kr, kc) ==
    LET w == <<<<1, 2, 1>>, <<2, 4, 2>>, <<1, 2, 1>>>>
    IN  Rat(w[kr + 2][kc + 2], 16)

\* blurGrid: the neighbours of (r, c) that are inside the grid and valid
Contributing(g, width, height, r, c) ==
    {k \in (-1 .. 1) \X (-1 .. 1) :
        /\ r + k[1] >= 0 /\ r + k[1] < height
        /\ c + k[2] >= 0 /\ c + k[2] < width
        /\ IsValid(At(g, r + k[1], c + k[2]))}

RECURSIVE SumOver(_, _, _, _, _)
SumOver(S, g, r, c, withValue) ==
    IF S = {} THEN ZERO
    ELSE LET k == CHOOSE x \in S : TRUE
             w == kernel(k[1], k[2])
             term == IF withValue
                     THEN RMul(At(g, r + k[1], c + k[2]), w) ELSE w
         IN  RAdd(term, SumOver(S \ {k}, g, r, c, withValue))

blurCell(g, width, height, r, c) ==
    LET centerVal == At(g, r, c)
        S == Contributing(g, width, height, r, c)
        sum == SumOver(S, g, r, c, TRUE)
        weightSum == SumOver(S, g, r, c, FALSE)
    IN  IF ~IsValid(centerVal) THEN centerVal
        ELSE IF RGt(weightSum, ZERO) THEN RDiv(sum, weightSum) ELSE centerVal

blurGrid(g, width, height) ==
    [r \in 1 .. height |-> [c \in 1 .. width |->
        blurCell(g, width, height, r - 1, c - 1)]]

\* blurGrid on a grid of doubles and nulls: the same loops, with the sums
\* accumulated in the order of the loops (kr outer, kc inner)
IsValidF64(v) == IsF64(v)

kernelF64(kr, kc) ==
    LET w == <<<<1, 2, 1>>, <<2, 4, 2>>, <<1, 2, 1>>>>
    IN  FDiv(FFromInt(w[kr + 2][kc + 2]), FFromInt(16))

KernelOffsets ==
    <<<<-1, -1>>, <<-1, 0>>, <<-1, 1>>, <<0, -1>>, <<0, 0>>, <<0, 1>>,
      <<1, -1>>, <<1, 0>>, <<1, 1>>>>

\* acc = [sum, weightSum] after the first i - 1 kernel positions
RECURSIVE BlurSums(_, _, _, _, _, _, _)
BlurSums(g, width, height, r, c, i, acc) ==
    IF i > Len(KernelOffsets) THEN acc
    ELSE LET nr == r + KernelOffsets[i][1]
             nc == c + KernelOffsets[i][2]
             weight == kernelF64(KernelOffsets[i][1], KernelOffsets[i][2])
             inGrid == nr >= 0 /\ nr < height /\ nc >= 0 /\ nc < width
             Rest(a) == BlurSums(g, width, height, r, c, i + 1, a)
         IN  IF inGrid /\ IsValidF64(At(g, nr, nc))
             THEN CHOOSE x \in
                      {Rest(a) : a \in
                          {[sum |-> FAdd(acc.sum, FMul(At(g, nr, nc), weight)),
                            weightSum |-> FAdd(acc.weightSum, weight)]}} : TRUE
             ELSE Rest(acc)

blurCellF64(g, width, height, r, c) ==
    LET centerVal == At(g, r, c)
        Average(acc) ==
            IF FGt(acc.weightSum, FZero) THEN FDiv(acc.sum, acc.weightSum)
            ELSE centerVal
    IN  IF ~IsValidF64(centerVal) THEN centerVal
        ELSE CHOOSE x \in
                 {Average(acc) : acc \in
                     {BlurSums(g, width, height, r, c, 1,
                               [sum |-> FZero, weightSum |-> FZero])}} : TRUE

blurGridF64(g, width, height) ==
    [r \in 1 .. height |-> [c \in 1 .. width |->
        blurCellF64(g, width, height, r - 1, c - 1)]]

\* a buggy variant of the range scan: `if (val && isFinite(val))`, which
\* drops the sample 0 as well
ValidSamplesTruthy(g, width, height) ==
    {At(g, r, c) : r \in 0 .. height - 1, c \in 0 .. width - 1}
        \ {NULL, NaN, ZERO}

\* a buggy variant of the range scan: without `val !== null`, isFinite(null)
\* holds and null counts as the sample 0
ValidSamplesNullAsZero(g, width, height) ==
    {IF At(g, r, c) = NULL THEN ZERO ELSE At(g, r, c) :
        r \in 0 .. height - 1, c \in 0 .. width - 1} \ {NaN}

\* generateContours, step 2: the valid samples of the width x height window
ValidSamples(g, width, height) ==
    {At(g, r, c) : r \in 0 .. height - 1, c \in 0 .. width - 1} \ {NULL, NaN}

RangeMin(S) == CHOOSE v \in S : \A w \in S : RLe(v, w)
RangeMax(S) == CHOOSE v \in S : \A w \in S : RGe(v, w)

(***************************************************************************)
(* Isoline tracer: pure parts of traceContoursAtLevel, getEdgeKeys and     *)
(* traceContourFromEdge                                                    *)
(***************************************************************************)
EDGES == <<"T", "R", "B", "L">>

\* a buggy variant of the corner reads: `grid[row][col] || 0`, which reads a
\* no-data sample as 0
NullAsZero(v) == IF v = NULL THEN ZERO ELSE v
CornersNullAsZero(g, r, c) ==
    [a |-> NullAsZero(At(g, r, c)), b |-> NullAsZero(At(g, r, c + 1)),
     c |-> NullAsZero(At(g, r + 1, c + 1)), d |-> NullAsZero(At(g, r + 1, c))]

\* the four corners of cell (r, c): a top-left, b top-right, c bottom-right,
\* d bottom-left
Corners(g, r, c) ==
    [a |-> At(g, r, c), b |-> At(g, r, c + 1),
     c |-> At(g, r + 1, c + 1), d |-> At(g, r + 1, c)]

HasNullCorner(q) == q.a = NULL \/ q.b = NULL \/ q.c = NULL \/ q.d = NULL

Bit(cond, w) == IF cond THEN w ELSE 0

\* traceContoursAtLevel: cellCase |= 1, 2, 4, 8
CellCase(q, v) ==
    Bit(RGe(q.a, v), 1) + Bit(RGe(q.b, v), 2)
        + Bit(RGe(q.c, v), 4) + Bit(RGe(q.d, v), 8)

HasBit(cellCase, w) == (cellCase \div w) % 2 = 1

\* a buggy variant of getEdgeKeys: the keys of all four edges of the cell
getEdgeKeysAll(r, c, cellCase) ==
    <<<<"T", r, c>>, <<"R", r, c>>, <<"B", r, c>>, <<"L", r, c>>>>

getEdgeKeys(r, c, cellCase) ==
    LET hasTop == HasBit(cellCase, 1) # HasBit(cellCase, 2)
        hasRight == HasBit(cellCase, 2) # HasBit(cellCase, 4)
        hasBottom == HasBit(cellCase, 4) # HasBit(cellCase, 8)
        hasLeft == HasBit(cellCase, 1) # HasBit(cellCase, 8)
    IN  (IF hasTop THEN <<<<"T", r, c>>>> ELSE <<>>)
        \o (IF hasRight THEN <<<<"R", r, c>>>> ELSE <<>>)
        \o (IF hasBottom THEN <<<<"B", r, c>>>> ELSE <<>>)
        \o (IF hasLeft THEN <<<<"L", r, c>>>> ELSE <<>>)

\* traceContourFromEdge: does edge e of the cell carry a crossing
HasCrossing(q, v, e) ==
    CASE e = "T" -> RGe(q.a, v) # RGe(q.b, v)
      [] e = "R" -> RGe(q.b, v) # RGe(q.c, v)
      [] e = "B" -> RGe(q.d, v) # RGe(q.c, v)
      [] e = "L" -> RGe(q.a, v) # RGe(q.d, v)

\* t = (isoValue - from) / (to - from)
Interp(v, from, to) == RDiv(RSub(v, from), RSub(to, from))

\* traceContourFromEdge: crossings[e], in grid-fractional coordinates [x, y]
Crossing(q, v, r, c, e) ==
    CASE e = "T" -> <<RAdd(RInt(c), Interp(v, q.a, q.b)), RInt(r)>>
      [] e = "R" -> <<RInt(c + 1), RAdd(RInt(r), Interp(v, q.b, q.c))>>
      [] e = "B" -> <<RAdd(RInt(c), Interp(v, q.d, q.c)), RInt(r + 1)>>
      [] e = "L" -> <<RInt(c), RAdd(RInt(r), Interp(v, q.a, q.d))>>

\* a buggy variant of the exit search: the entry edge is not filtered out
CrossingEdgesKeepEntry(q, v, entry) ==
    SelectSeq(EDGES, LAMBDA e : HasCrossing(q, v, e))

\* Object.keys(crossings).filter(e => e !== entryEdge): insertion order T,R,B,L
CrossingEdges(q, v, entry) ==
    SelectSeq(EDGES, LAMBDA e : HasCrossing(q, v, e) /\ e # entry)

Center(q) == RDiv(RAdd(RAdd(q.a, q.b), RAdd(q.c, q.d)), RInt(4))

\* the saddle rule: center >= isoValue picks the first candidate, else the last
ExitEdge(q, v, entry) ==
    LET ce == CrossingEdges(q, v, entry)
    IN  IF Len(ce) > 1
        THEN IF RGe(Center(q), v) THEN ce[1] ELSE ce[Len(ce)]
        ELSE ce[1]

NextRow(r, e) == CASE e = "T" -> r - 1 [] e = "B" -> r + 1 [] OTHER -> r
NextCol(c, e) == CASE e = "R" -> c + 1 [] e = "L" -> c - 1 [] OTHER -> c
NextEntryEdge(e) ==
    CASE e = "T" -> "B" [] e = "R" -> "L" [] e = "B" -> "T" [] e = "L" -> "R"

\* a buggy variant of the boundary test: the last row and column of samples
\* are taken for cells
OutOfGridByOne(r, c, width, height) ==
    r < 0 \/ r >= height \/ c < 0 \/ c >= width

OutOfGrid(r, c, width, height) ==
    r < 0 \/ r >= height - 1 \/ c < 0 \/ c >= width - 1

\* history only: one name for the two keys of a shared cell edge
EdgeId(e, r, c) ==
    CASE e = "T" -> <<"H", r, c>>
      [] e = "B" -> <<"H", r + 1, c>>
      [] e = "L" -> <<"V", r, c>>
      [] e = "R" -> <<"V", r, c + 1>>

(***************************************************************************)
(* Stitcher: mergeLineEndpoints and distance                               *)
(***************************************************************************)
Sq(x) == RMul(x, x)

\* distance(p1, p2), squared
distanceSq(p1, p2) == RAdd(Sq(RSub(p1[1], p2[1])), Sq(RSub(p1[2], p2[2])))

\* distance(p1, p2) on doubles
distance(p1, p2) ==
    LET dx == FSub(p1[1], p2[1])
        dy == FSub(p1[2], p2[2])
    IN  FSqrt(FAdd(FMul(dx, dx), FMul(dy, dy)))

\* minDist <= threshold, on the squares
WithinThreshold(dSq, threshold) ==
    RGe(threshold, ZERO) /\ RLe(dSq, Sq(threshold))

Reverse(s) == [i \in 1 .. Len(s) |-> s[Len(s) + 1 - i]]
\* Array.prototype.slice(1) and slice(0, -1)
SliceFrom1(s) == IF Len(s) <= 1 THEN <<>> ELSE SubSeq(s, 2, Len(s))
\* a slice that keeps the last element
SliceAll(s) == s

SliceToLast(s) == IF Len(s) <= 1 THEN <<>> ELSE SubSeq(s, 1, Len(s) - 1)

\* the four endpoint distances d1..d4 of mergeLineEndpoints, squared
EndDists(current, other) ==
    LET currentStart == current[1]
        currentEnd == current[Len(current)]
        otherStart == other[1]
        otherEnd == other[Len(other)]
    IN  <<distanceSq(currentEnd, otherStart), distanceSq(currentEnd, otherEnd),
          distanceSq(currentStart, otherStart),
          distanceSq(currentStart, otherEnd)>>

MinDist(ds) == RMin(RMin(ds[1], ds[2]), RMin(ds[3], ds[4]))

\* the if / else-if chain on minDist === d1, d2, d3
Join(current, other) ==
    LET ds == EndDists(current, other)
        m == MinDist(ds)
    IN  IF m = ds[1] THEN current \o SliceFrom1(other)
        ELSE IF m = ds[2] THEN current \o Reverse(SliceToLast(other))
        ELSE IF m = ds[3] THEN Reverse(SliceFrom1(other)) \o current
        ELSE SliceToLast(other) \o current

\* the inner for loop: the first unused j within the threshold, 0 when none
FirstMergeable(lns, used, current, threshold) ==
    LET ok == {j \in 1 .. Len(lns) :
                  /\ j \notin used
                  /\ WithinThreshold(MinDist(EndDists(current, lns[j])),
                                     threshold)}
    IN  IF ok = {} THEN 0 ELSE CHOOSE j \in ok : \A k \in ok : j <= k

\* a buggy variant of the while loop: one pass over j, never rescanning the
\* lines it has passed
RECURSIVE GrowOnePass(_, _, _, _, _)
GrowOnePass(lns, used, current, threshold, j) ==
    IF j > Len(lns) THEN [current |-> current, used |-> used]
    ELSE IF j \notin used
            /\ WithinThreshold(MinDist(EndDists(current, lns[j])), threshold)
         THEN GrowOnePass(lns, used \cup {j}, Join(current, lns[j]),
                          threshold, j + 1)
         ELSE GrowOnePass(lns, used, current, threshold, j + 1)

GrowNoRescan(lns, used, current, threshold) ==
    GrowOnePass(lns, used, current, threshold, 1)

\* the while (foundMerge) loop: merge, then rescan from j = 0
RECURSIVE Grow(_, _, _, _)
Grow(lns, used, current, threshold) ==
    LET j == FirstMergeable(lns, used, current, threshold)
    IN  IF j = 0 THEN [current |-> current, used |-> used]
        ELSE Grow(lns, used \cup {j}, Join(current, lns[j]), threshold)

\* a buggy variant of the outer loop without 'if (used.has(i)) continue': a
\* line merged into an earlier one starts a line of its own as well
RECURSIVE MergeFromReuse(_, _, _, _, _)
MergeFromReuse(lns, i, used, merged, threshold) ==
    IF i > Len(lns) THEN merged
    ELSE LET g == Grow(lns, used \cup {i}, lns[i], threshold)
         IN  MergeFromReuse(lns, i + 1, g.used, Append(merged, g.current),
                            threshold)

\* the outer for loop over i
RECURSIVE MergeFrom(_, _, _, _, _)
MergeFrom(lns, i, used, merged, threshold) ==
    IF i > Len(lns) THEN merged
    ELSE IF i \in used THEN MergeFrom(lns, i + 1, used, merged, threshold)
    ELSE LET g == Grow(lns, used \cup {i}, lns[i], threshold)
         IN  MergeFrom(lns, i + 1, g.used, Append(merged, g.current),
                       threshold)

mergeLineEndpoints(lns, threshold) ==
    IF Len(lns) <= 1 THEN lns ELSE MergeFrom(lns, 1, {}, <<>>, threshold)

(***************************************************************************)
(* Curve refiner: simplifyDouglasPeucker, perpendicularDistance,           *)
(* smoothChaikin                                                           *)
(***************************************************************************)
ONE == RInt(1)

\* perpendicularDistance(point, lineStart, lineEnd), squared
perpendicularDistanceSq(point, lineStart, lineEnd) ==
    LET dx == RSub(lineEnd[1], lineStart[1])
        dy == RSub(lineEnd[2], lineStart[2])
        lenSq == RAdd(Sq(dx), Sq(dy))
    IN  IF lenSq = ZERO THEN distanceSq(point, lineStart)
        ELSE LET raw == RDiv(RAdd(RMul(RSub(point[1], lineStart[1]), dx),
                                  RMul(RSub(point[2], lineStart[2]), dy)),
                             lenSq)
                 t == RMax(ZERO, RMin(ONE, raw))
                 projection == <<RAdd(lineStart[1], RMul(t, dx)),
                                 RAdd(lineStart[2], RMul(t, dy))>>
             IN  distanceSq(point, projection)

\* perpendicularDistance(point, lineStart, lineEnd) on doubles
perpendicularDistance(point, lineStart, lineEnd) ==
    LET dx == FSub(lineEnd[1], lineStart[1])
        dy == FSub(lineEnd[2], lineStart[2])
        lenSq == FAdd(FMul(dx, dx), FMul(dy, dy))
    IN  IF lenSq = FZero THEN distance(point, lineStart)
        ELSE LET raw == FDiv(FAdd(FMul(FSub(point[1], lineStart[1]), dx),
                                  FMul(FSub(point[2], lineStart[2]), dy)),
                             lenSq)
                 t == FMax(FZero, FMin(FOne, raw))
                 projection == <<FAdd(lineStart[1], FMul(t, dx)),
                                 FAdd(lineStart[2], FMul(t, dy))>>
             IN  CHOOSE r \in {distance(point, q) : q \in {projection}} : TRUE

\* the for loop of simplifyDouglasPeucker; i, maxIndex are 0-based as in the
\* code, and the running maximum is kept squared
RECURSIVE FarthestFrom(_, _, _, _)
FarthestFrom(points, i, maxDistSq, maxIndex) ==
    IF i >= Len(points) - 1
    THEN [maxDistSq |-> maxDistSq, maxIndex |-> maxIndex]
    ELSE LET d == perpendicularDistanceSq(points[i + 1], points[1],
                                          points[Len(points)])
         IN  IF RGt(d, maxDistSq) THEN FarthestFrom(points, i + 1, d, i)
             ELSE FarthestFrom(points, i + 1, maxDistSq, maxIndex)

\* maxDist > tolerance, on the squares (tolerance >= 0)
ExceedsTolerance(maxDistSq, tolerance) == RGt(maxDistSq, Sq(tolerance))

RECURSIVE simplifyDouglasPeucker(_, _)
simplifyDouglasPeucker(points, tolerance) ==
    IF Len(points) <= 2 THEN points
    ELSE LET f == FarthestFrom(points, 1, ZERO, 0)
         IN  IF ExceedsTolerance(f.maxDistSq, tolerance)
             THEN LET left == simplifyDouglasPeucker(
                                  SubSeq(points, 1, f.maxIndex + 1), tolerance)
                      right == simplifyDouglasPeucker(
                                  SubSeq(points, f.maxIndex + 1, Len(points)),
                                  tolerance)
                  IN  SliceToLast(left) \o right
             ELSE <<points[1], points[Len(points)]>>

\* the same for loop and function on points with double coordinates: the
\* distances are the doubles the code computes
RECURSIVE FarthestFromF64(_, _, _, _)
FarthestFromF64(points, i, maxDist, maxIndex) ==
    IF i >= Len(points) - 1
    THEN [maxDist |-> maxDist, maxIndex |-> maxIndex]
    ELSE LET Keep(d) ==
                 IF FGt(d, maxDist) THEN FarthestFromF64(points, i + 1, d, i)
                 ELSE FarthestFromF64(points, i + 1, maxDist, maxIndex)
         IN  CHOOSE r \in {Keep(d) : d \in {perpendicularDistance(
                               points[i + 1], points[1], points[Len(points)])}} :
                 TRUE

RECURSIVE simplifyDouglasPeuckerF64(_, _)
simplifyDouglasPeuckerF64(points, tolerance) ==
    IF Len(points) <= 2 THEN points
    ELSE LET Split(f) ==
                 IF FGt(f.maxDist, tolerance)
                 THEN LET left == simplifyDouglasPeuckerF64(
                                      SubSeq(points, 1, f.maxIndex + 1),
                                      tolerance)
                          right == simplifyDouglasPeuckerF64(
                                      SubSeq(points, f.maxIndex + 1,
                                             Len(points)), tolerance)
                      IN  SliceToLast(left) \o right
                 ELSE <<points[1], points[Len(points)]>>
         IN  CHOOSE r \in {Split(f) : f \in {FarthestFromF64(points, 1, FZero,
                                                              0)}} : TRUE

\* p0 * wa/4 + p1 * wb/4
Mix(p0, p1, wa, wb) ==
    <<RAdd(RMul(p0[1], Rat(wa, 4)), RMul(p1[1], Rat(wb, 4))),
      RAdd(RMul(p0[2], Rat(wa, 4)), RMul(p1[2], Rat(wb, 4)))>>

RECURSIVE ChaikinEdges(_, _)
ChaikinEdges(result, i) ==
    IF i >= Len(result) THEN <<>>
    ELSE <<Mix(result[i], result[i + 1], 3, 1),
           Mix(result[i], result[i + 1], 1, 3)>>
         \o ChaikinEdges(result, i + 1)

\* a buggy variant of smoothChaikin: the first and last point are not kept
smoothChaikinNoEnds(points) ==
    IF Len(points) < 3 THEN points ELSE ChaikinEdges(points, 1)

\* smoothChaikin(points), called with the default iterations = 1
smoothChaikin(points) ==
    IF Len(points) < 3 THEN points
    ELSE <<points[1]>> \o ChaikinEdges(points, 1) \o <<points[Len(points)]>>

\* the same on points with double coordinates: p0 * wa + p1 * wb with the
\* weights 0.75 and 0.25
MixF64(p0, p1, wa, wb) ==
    <<FAdd(FMul(p0[1], wa), FMul(p1[1], wb)),
      FAdd(FMul(p0[2], wa), FMul(p1[2], wb))>>

RECURSIVE ChaikinEdgesF64(_, _)
ChaikinEdgesF64(result, i) ==
    IF i >= Len(result) THEN <<>>
    ELSE <<MixF64(result[i], result[i + 1], FDec(3, 4), FDec(1, 4)),
           MixF64(result[i], result[i + 1], FDec(1, 4), FDec(3, 4))>>
         \o ChaikinEdgesF64(result, i + 1)

smoothChaikinF64(points) ==
    IF Len(points) < 3 THEN points
    ELSE <<points[1]>> \o ChaikinEdgesF64(points, 1)
             \o <<points[Len(points)]>>

RECURSIVE SmoothTimes(_, _)
SmoothTimes(ln, n) ==
    IF n <= 0 THEN ln ELSE SmoothTimes(smoothChaikin(ln), n - 1)

MapSeq(s, Op(_)) == [i \in 1 .. Len(s) |-> Op(s[i])]

(***************************************************************************)
(* generateContours: parameters (destructuring defaults) and the per-level *)
(* post-processing                                                         *)
(***************************************************************************)
Param(P, name, default) == IF name \in DOMAIN P THEN P[name] ELSE default

P_interval(P) == Param(P, "interval", 5)
P_majorInterval(P) == Param(P, "majorInterval", 25)
\* a default that also replaces a blurPasses of 0 (blurPasses || 1)
P_blurPassesOrDefault(P) ==
    IF "blurPasses" \in DOMAIN P /\ P.blurPasses # 0 THEN P.blurPasses ELSE 1
P_blurPasses(P) == Param(P, "blurPasses", 1)
P_simplifyTolerance(P) == Param(P, "simplifyTolerance", NULL)
P_smoothIterations(P) == Param(P, "smoothIterations", 2)

\* a JavaScript number used as a condition: null, NaN and 0 are falsy
Truthy(v) == IsNum(v) /\ v # ZERO

\* Math.floor(minZ / interval) * interval; a zero interval gives NaN.
\* With an integer interval the arithmetic is exact; a range given as
\* doubles is computed in double arithmetic, the interval being a double.
MinLevel(lo, interval) ==
    IF IsF64(lo) THEN FMul(FFromInt(FFloor(FDiv(lo, interval))), interval)
    ELSE IF interval = 0 THEN NaN
    ELSE RInt(RFloor(RDiv(lo, RInt(interval))) * interval)

\* Math.ceil(maxZ / interval) * interval
MaxLevel(hi, interval) ==
    IF IsF64(hi) THEN FMul(FFromInt(FCeil(FDiv(hi, interval))), interval)
    ELSE IF interval = 0 THEN NaN
    ELSE RInt(RCeil(RDiv(hi, RInt(interval))) * interval)

\* elev <= maxLevel: false as soon as one side is NaN
LevelLe(a, b) ==
    IF IsF64(a) THEN FLe(a, b)
    ELSE IsNum(a) /\ IsNum(b) /\ RLe(a, b)

\* elev += interval
LevelStep(e, interval) ==
    IF IsF64(e) THEN FAdd(e, interval) ELSE RAdd(e, RInt(interval))

\* grid coordinates to world coordinates
ToWorld(P, p) ==
    <<RAdd(RInt(P.bounds.minX), RMul(p[1], P.cellSize)),
      RAdd(RInt(P.bounds.minY), RMul(p[2], P.cellSize))>>

\* simplifyTolerance || (cellSize * 0.3)
Tolerance(P) ==
    IF Truthy(P_simplifyTolerance(P)) THEN P_simplifyTolerance(P)
    ELSE RMul(P.cellSize, Rat(3, 10))

\* (elevation % majorInterval) === 0
IsMajor(elevation, majorInterval) ==
    /\ majorInterval # 0
    /\ elevation[2] = 1
    /\ elevation[1] % Abs(majorInterval) = 0

\* a buggy variant of the feature builder: coordinates: line.slice(1)
FeatureDropFirst(elevation, isMajor, ln) ==
    [type |-> "Feature",
     properties |-> [elevation |-> elevation, isMajor |-> isMajor,
                     pointCount |-> Len(ln)],
     geometry |-> [type |-> "LineString", coordinates |-> SliceFrom1(ln)]]

Feature(elevation, isMajor, ln) ==
    [type |-> "Feature",
     properties |-> [elevation |-> elevation, isMajor |-> isMajor,
                     pointCount |-> Len(ln)],
     geometry |-> [type |-> "LineString", coordinates |-> ln]]

\* the body of the for (const elevation of levels) loop after tracing
LevelFeatures(P, elevation, rawLines) ==
    IF Len(rawLines) = 0 THEN <<>>
    ELSE LET worldLines ==
                 MapSeq(rawLines, LAMBDA ln :
                     MapSeq(ln, LAMBDA p : ToWorld(P, p)))
             mergedLines ==
                 mergeLineEndpoints(worldLines, RMul(P.cellSize, Rat(3, 2)))
             tolerance == Tolerance(P)
             simplifiedLines ==
                 SelectSeq(MapSeq(mergedLines, LAMBDA ln :
                               simplifyDouglasPeucker(ln, tolerance)),
                           LAMBDA ln : Len(ln) >= 2)
             smoothedLines ==
                 IF P_smoothIterations(P) > 0
                 THEN MapSeq(simplifiedLines, LAMBDA ln :
                          SmoothTimes(ln, P_smoothIterations(P)))
                 ELSE simplifiedLines
             isMajor == IsMajor(elevation, P_majorInterval(P))
         IN  MapSeq(SelectSeq(smoothedLines, LAMBDA ln : Len(ln) >= 2),
                    LAMBDA ln : Feature(elevation, isMajor, ln))

FeatureCollection(P, feats, lo, hi) ==
    [type |-> "FeatureCollection",
     features |-> feats,
     metadata |-> [totalLines |-> Len(feats),
                   elevationRange |-> <<lo, hi>>,
                   interval |-> P_interval(P),
                   majorInterval |-> P_majorInterval(P)]]

(***************************************************************************)
(* Inputs                                                                  *)
(***************************************************************************)
\* most levels the level loop may push before the model stops following it
\* (the loop of a negative interval never ends)
MaxLevels == 12

IntGrid(g) == [r \in DOMAIN g |-> [c \in DOMAIN g[r] |-> RInt(g[r][c])]]
AllGrids(h, w, V) == [1 .. h -> [1 .. w -> V]]

SampleValues == {NULL, RInt(0), RInt(10)}
FiniteValues == {RInt(0), RInt(10)}

PeakGrid == IntGrid(<<<<0, 0, 0>>, <<0, 10, 0>>, <<0, 0, 0>>>>)
RidgeGrid == IntGrid(<<<<0, 0, 0>>, <<0, 10, 10>>, <<0, 0, 0>>>>)
SlopeGrid == IntGrid(<<<<0, 0, 0, 0>>, <<10, 10, 10, 10>>>>)
RampGrid == IntGrid(<<<<0, 4, 8>>, <<2, 6, 10>>, <<4, 8, 12>>>>)
FlatGrids == {IntGrid(<<<<0, 0>>, <<0, 0>>>>),
              IntGrid(<<<<0, 0, 0>>, <<0, 0, 0>>>>),
              IntGrid(<<<<0, 0, 0>>, <<0, 0, 0>>, <<0, 0, 0>>>>)}
NullGrid == <<<<NULL, NULL>>, <<NULL, NULL>>>>
\* a contour at level 5 that runs through two cells into a cell with a
\* no-data corner
HoleGrid ==
    [IntGrid(<<<<10, 0, 0>>, <<10, 10, 0>>, <<10, 10, 10>>>>)
        EXCEPT ![3][3] = NULL]
NamedGrids == {PeakGrid, RidgeGrid, SlopeGrid, RampGrid}

Base(g) ==
    [grid |-> g, width |-> Len(g[1]), height |-> Len(g),
     bounds |-> [minX |-> 0, minY |-> 0], cellSize |-> RInt(1),
     interval |-> 5, blurPasses |-> 0]

\* configurations around Base(g): one setting changed at a time
Variants(g) ==
    {Base(g)}
    \cup {Base(g) @@ [smoothIterations |-> n] : n \in 0 .. 2}
    \cup {Base(g) @@ [simplifyTolerance |-> t] :
              t \in {NULL, ZERO, RInt(1), Rat(1, 10)}}
    \cup {Base(g) @@ [majorInterval |-> 10]}
    \cup {[Base(g) EXCEPT !.bounds = [minX |-> 100, minY |-> -50]],
          [Base(g) EXCEPT !.cellSize = RInt(2)]}
    \cup {[Base(g) EXCEPT !.interval = i] : i \in {4, 10}}
    \cup {[Base(g) EXCEPT !.interval = 2, !.blurPasses = n] : n \in 1 .. 2}

\* configurations the error taxonomy calls invalid: a non-positive interval,
\* or width / height that differ from the grid's dimensions
InvalidVariants(g) ==
    {[Base(g) EXCEPT !.interval = i] : i \in {0, -5}}
    \cup {[Base(g) EXCEPT !.width = 2, !.height = 2],
          [Base(g) EXCEPT !.height = Len(g) + 1],
          [Base(g) EXCEPT !.height = Len(g) + 1, !.blurPasses = 1]}

ParamSet ==
    {Base(g) : g \in AllGrids(2, 2, SampleValues)
                     \cup AllGrids(2, 3, SampleValues)
                     \cup AllGrids(3, 2, SampleValues)
                     \cup AllGrids(3, 3, FiniteValues)}
    \cup UNION {Variants(g) : g \in NamedGrids}
    \cup {[Base(g) EXCEPT !.blurPasses = n] : g \in FlatGrids, n \in 0 .. 2}
    \cup {[grid |-> g, width |-> Len(g[1]), height |-> Len(g),
           bounds |-> [minX |-> 0, minY |-> 0], cellSize |-> RInt(1)] :
              g \in FlatGrids \cup {PeakGrid, NullGrid}}
    \cup UNION {InvalidVariants(g) : g \in {PeakGrid, RampGrid}}

Messages ==
    {[type |-> "ping"], [type |-> "resize"]}
    \cup {[type |-> "generate-contours", payload |-> P] : P \in ParamSet}

(***************************************************************************)
(* State                                                                   *)
(***************************************************************************)
NoMsg == [type |-> "none"]

\* the locals of traceContourFromEdge, before and after a call
TraceIdle ==
    /\ trow = 0 /\ tcol = 0 /\ entryEdge = "" /\ line = <<>>
    /\ lineEdges = <<>> /\ iterations = 0

\* the locals of traceContoursAtLevel, outside a call
TracerIdle ==
    /\ isoValue = NaN /\ visited = {} /\ lines = <<>> /\ linesEdges = <<>>
    /\ stops = <<>> /\ row = 0 /\ col = 0 /\ pendingKeys = <<>>
    /\ TraceIdle

\* the locals of generateContours, outside a call
PipelineIdle ==
    /\ processedGrid = <<>> /\ blurI = 0 /\ minZ = NaN /\ maxZ = NaN
    /\ levels = <<>> /\ elev = NaN /\ levelIdx = 0 /\ features = <<>>

RefinerIdle ==
    /\ rPoints = <<>> /\ rTolerance = ZERO /\ rSimplified = <<>>
    /\ rSmoothed = <<>> /\ rIterations = 0

HarnessIdle ==
    /\ mLines = <<>> /\ mThreshold = ZERO /\ mOnce = <<>> /\ mTwice = <<>>
    /\ RefinerIdle

Init ==
    /\ pc = "idle" /\ msg = NoMsg /\ outbox = <<>>
    /\ PipelineIdle /\ TracerIdle /\ HarnessIdle

pipelineVars == <<processedGrid, blurI, minZ, maxZ, levels, elev, levelIdx,
                  features>>
traceVars == <<trow, tcol, entryEdge, line, lineEdges, iterations>>
tracerVars == <<isoValue, visited, lines, linesEdges, stops, row, col,
                pendingKeys, trow, tcol, entryEdge, line, lineEdges,
                iterations>>
refinerVars == <<rPoints, rTolerance, rSimplified, rSmoothed, rIterations>>
harnessVars == <<mLines, mThreshold, mOnce, mTwice, rPoints, rTolerance,
                 rSimplified, rSmoothed, rIterations>>

Width == msg.payload.width
Height == msg.payload.height

(***************************************************************************)
(* self.onmessage                                                          *)
(***************************************************************************)
ErrorMsg(message) == [type |-> "error", payload |-> [message |-> message]]

\* the catch block: post the error; the handler is over
Throw(message) ==
    /\ outbox' = Append(outbox, ErrorMsg(message))
    /\ pc' = "done"

\* case 'ping'
HandlePing ==
    /\ pc = "idle"
    /\ \E m \in Messages :
        /\ m.type = "ping"
        /\ msg' = m
    /\ outbox' = Append(outbox, [type |-> "pong"])
    /\ pc' = "done"
    /\ UNCHANGED <<pipelineVars, tracerVars, harnessVars>>

\* default: throw new Error('Unknown message type'), caught and posted
HandleUnknown ==
    /\ pc = "idle"
    /\ \E m \in Messages :
        /\ m.type \notin {"ping", "generate-contours"}
        /\ msg' = m
    /\ Throw("Unknown message type")
    /\ UNCHANGED <<pipelineVars, tracerVars, harnessVars>>

\* case 'generate-contours': enter generateContours(payload)
StartGenerate ==
    /\ pc = "idle"
    /\ \E m \in Messages :
        /\ m.type = "generate-contours"
        /\ msg' = m
        /\ processedGrid' = m.payload.grid
    /\ blurI' = 0
    /\ pc' = "blur"
    /\ UNCHANGED <<outbox, minZ, maxZ, levels, elev, levelIdx, features,
                   tracerVars, harnessVars>>

\* the handler returned: its locals are gone, the worker waits again
Return ==
    /\ pc = "done"
    /\ pc' = "idle" /\ msg' = NoMsg /\ outbox' = <<>>
    /\ processedGrid' = <<>> /\ blurI' = 0 /\ minZ' = NaN /\ maxZ' = NaN
    /\ levels' = <<>> /\ elev' = NaN /\ levelIdx' = 0 /\ features' = <<>>
    /\ UNCHANGED <<tracerVars, harnessVars>>

(***************************************************************************)
(* generateContours                                                        *)
(***************************************************************************)
\* reading processedGrid[r] for a row the grid does not have is undefined,
\* and undefined[c] throws a TypeError
ReadsMissingRow == Height > Len(processedGrid)

\* step 1: one pass of the blur loop
BlurPass ==
    /\ pc = "blur"
    /\ blurI < P_blurPasses(msg.payload)
    /\ IF ReadsMissingRow
       THEN /\ Throw("TypeError")
            /\ UNCHANGED <<processedGrid, blurI>>
       ELSE /\ processedGrid' = blurGrid(processedGrid, Width, Height)
            /\ blurI' = blurI + 1
            /\ UNCHANGED <<pc, outbox>>
    /\ UNCHANGED <<msg, minZ, maxZ, levels, elev, levelIdx, features,
                   tracerVars, harnessVars>>

\* step 2: the elevation range, the empty-grid throw, and minLevel
ComputeRange ==
    /\ pc = "blur"
    /\ blurI >= P_blurPasses(msg.payload)
    /\ LET S == ValidSamples(processedGrid, Width, Height)
       IN  IF ReadsMissingRow
           THEN /\ Throw("TypeError")
                /\ UNCHANGED <<minZ, maxZ, elev>>
           ELSE IF S = {}
           THEN /\ Throw("No valid elevation data in grid")
                /\ UNCHANGED <<minZ, maxZ, elev>>
           ELSE /\ minZ' = RangeMin(S)
                /\ maxZ' = RangeMax(S)
                /\ elev' = MinLevel(RangeMin(S), P_interval(msg.payload))
                /\ pc' = "levels"
                /\ UNCHANGED outbox
    /\ UNCHANGED <<msg, processedGrid, blurI, levels, levelIdx, features,
                   tracerVars, harnessVars>>

\* step 3: one iteration of for (elev = minLevel; elev <= maxLevel; ...)
PlanLevel ==
    /\ pc = "levels"
    /\ LevelLe(elev, MaxLevel(maxZ, P_interval(msg.payload)))
    /\ Len(levels) < MaxLevels
    /\ levels' = Append(levels, elev)
    /\ elev' = LevelStep(elev, P_interval(msg.payload))
    /\ UNCHANGED <<pc, msg, outbox, processedGrid, blurI, minZ, maxZ,
                   levelIdx, features, tracerVars, harnessVars>>

\* step 3: the loop condition fails
LevelsDone ==
    /\ pc = "levels"
    /\ ~LevelLe(elev, MaxLevel(maxZ, P_interval(msg.payload)))
    /\ levelIdx' = 1
    /\ pc' = "forLevel"
    /\ UNCHANGED <<msg, outbox, processedGrid, blurI, minZ, maxZ, levels,
                   elev, features, tracerVars, harnessVars>>

\* step 4: call traceContoursAtLevel for the next level
BeginLevel ==
    /\ pc = "forLevel"
    /\ levelIdx <= Len(levels)
    /\ isoValue' = levels[levelIdx]
    /\ visited' = {} /\ lines' = <<>> /\ linesEdges' = <<>> /\ stops' = <<>>
    /\ row' = 0 /\ col' = 0 /\ pendingKeys' = <<>>
    /\ pc' = "scan"
    /\ UNCHANGED <<msg, outbox, pipelineVars, traceVars, harnessVars>>

\* a buggy variant of the push: features.unshift(...) for the level's lines
FinishLevelUnshift ==
    /\ pc = "post"
    /\ features' = LevelFeatures(msg.payload, isoValue, lines) \o features
    /\ levelIdx' = levelIdx + 1
    /\ isoValue' = NaN /\ visited' = {} /\ lines' = <<>> /\ linesEdges' = <<>>
    /\ stops' = <<>> /\ row' = 0 /\ col' = 0
    /\ pc' = "forLevel"
    /\ UNCHANGED <<msg, outbox, processedGrid, blurI, minZ, maxZ, levels,
                   elev, pendingKeys, traceVars, harnessVars>>

\* step 4, after tracing: merge, simplify, smooth, push the features
FinishLevel ==
    /\ pc = "post"
    /\ features' = features \o LevelFeatures(msg.payload, isoValue, lines)
    /\ levelIdx' = levelIdx + 1
    /\ isoValue' = NaN /\ visited' = {} /\ lines' = <<>> /\ linesEdges' = <<>>
    /\ stops' = <<>> /\ row' = 0 /\ col' = 0
    /\ pc' = "forLevel"
    /\ UNCHANGED <<msg, outbox, processedGrid, blurI, minZ, maxZ, levels,
                   elev, pendingKeys, traceVars, harnessVars>>

\* return the FeatureCollection; onmessage posts 'contours-complete'
PostComplete ==
    /\ pc = "forLevel"
    /\ levelIdx > Len(levels)
    /\ outbox' = Append(outbox,
           [type |-> "contours-complete",
            payload |-> FeatureCollection(msg.payload, features, minZ, maxZ)])
    /\ pc' = "done"
    /\ UNCHANGED <<msg, pipelineVars, tracerVars, harnessVars>>

(***************************************************************************)
(* traceContoursAtLevel: the two cell loops and the loop over edge keys    *)
(***************************************************************************)
InScan == row < Height - 1 /\ col < Width - 1

\* does the cell at (row, col) carry a contour
CellCrossed(g, r, c, v) ==
    LET q == Corners(g, r, c)
    IN  /\ ~HasNullCorner(q)
        /\ CellCase(q, v) \notin {0, 15}

\* col++, and row++ at the end of a row
AdvanceCell ==
    IF col + 1 < Width - 1
    THEN row' = row /\ col' = col + 1
    ELSE row' = row + 1 /\ col' = 0

\* a cell with a null corner, or all above / all below: continue
SkipCell ==
    /\ pc = "scan"
    /\ InScan
    /\ ~CellCrossed(processedGrid, row, col, isoValue)
    /\ AdvanceCell
    /\ UNCHANGED <<pc, msg, outbox, pipelineVars, isoValue, visited, lines,
                   linesEdges, stops, pendingKeys, traceVars, harnessVars>>

\* a cell the contour passes through: edgeKeys = getEdgeKeys(row, col, case)
EnterCell ==
    /\ pc = "scan"
    /\ InScan
    /\ CellCrossed(processedGrid, row, col, isoValue)
    /\ pendingKeys' = getEdgeKeys(row, col,
           CellCase(Corners(processedGrid, row, col), isoValue))
    /\ pc' = "keys"
    /\ UNCHANGED <<msg, outbox, pipelineVars, isoValue, visited, lines,
                   linesEdges, stops, row, col, traceVars, harnessVars>>

\* if (visited.has(edgeKey)) continue
SkipKey ==
    /\ pc = "keys"
    /\ pendingKeys # <<>>
    /\ Head(pendingKeys) \in visited
    /\ pendingKeys' = Tail(pendingKeys)
    /\ UNCHANGED <<pc, msg, outbox, pipelineVars, isoValue, visited, lines,
                   linesEdges, stops, row, col, traceVars, harnessVars>>

\* call traceContourFromEdge(..., row, col, edgeKey, visited)
StartTrace ==
    /\ pc = "keys"
    /\ pendingKeys # <<>>
    /\ Head(pendingKeys) \notin visited
    /\ trow' = row /\ tcol' = col
    /\ entryEdge' = Head(pendingKeys)[1]
    /\ line' = <<>> /\ lineEdges' = <<>> /\ iterations' = 0
    /\ pc' = "trace"
    /\ UNCHANGED <<msg, outbox, pipelineVars, isoValue, visited, lines,
                   linesEdges, stops, row, col, pendingKeys, harnessVars>>

\* the edge keys of the cell are done: next cell
NextCell ==
    /\ pc = "keys"
    /\ pendingKeys = <<>>
    /\ AdvanceCell
    /\ pc' = "scan"
    /\ UNCHANGED <<msg, outbox, pipelineVars, isoValue, visited, lines,
                   linesEdges, stops, pendingKeys, traceVars, harnessVars>>

\* both loops are over: return lines
ScanDone ==
    /\ pc = "scan"
    /\ ~InScan
    /\ pc' = "post"
    /\ UNCHANGED <<msg, outbox, pipelineVars, tracerVars, harnessVars>>

(***************************************************************************)
(* traceContourFromEdge: one iteration of the while loop                   *)
(***************************************************************************)
\* the line a finished trace returns is kept when it has 2 points or more
KeepLine(ln) == Len(ln) >= 2

\* the loop is left: return line; the caller keeps it and goes on with the
\* next edge key
EndTrace(reason, ln, le, vis) ==
    /\ lines' = IF KeepLine(ln) THEN Append(lines, ln) ELSE lines
    /\ linesEdges' = IF KeepLine(ln) THEN Append(linesEdges, le)
                     ELSE linesEdges
    /\ visited' = vis
    /\ stops' = Append(stops, reason)
    /\ pendingKeys' = Tail(pendingKeys)
    /\ trow' = 0 /\ tcol' = 0 /\ entryEdge' = "" /\ line' = <<>>
    /\ lineEdges' = <<>> /\ iterations' = 0
    /\ pc' = "keys"

\* a buggy variant of the visited check: the trace never stops at a key it
\* has already consumed
NeverVisited(edgeKey, vis) == FALSE

\* visited.has(edgeKey)
AlreadyVisited(edgeKey, vis) == edgeKey \in vis

\* a buggy variant of the marking: the neighbour's key is left unmarked
MarkedExitOnly(edgeKey, nextEdgeKey) == {edgeKey}

\* visited.add(edgeKey) and visited.add(nextEdgeKey) of a step that goes on
MarkedKeys(edgeKey, nextEdgeKey) == {edgeKey, nextEdgeKey}

TraceStep ==
    /\ pc = "trace"
    /\ LET q == Corners(processedGrid, trow, tcol)
           exitEdge == ExitEdge(q, isoValue, entryEdge)
           point == Crossing(q, isoValue, trow, tcol, exitEdge)
           edgeKey == <<exitEdge, trow, tcol>>
           nextRow == NextRow(trow, exitEdge)
           nextCol == NextCol(tcol, exitEdge)
           nextEntryEdge == NextEntryEdge(exitEdge)
           line2 == Append(line, point)
           edges2 == Append(lineEdges, EdgeId(exitEdge, trow, tcol))
       IN  IF iterations >= Width * Height * 2
           THEN EndTrace("cap", line, lineEdges, visited)
           ELSE IF HasNullCorner(q)
           THEN EndTrace("nodata", line, lineEdges, visited)
           ELSE IF CrossingEdges(q, isoValue, entryEdge) = <<>>
           THEN EndTrace("noexit", line, lineEdges, visited)
           ELSE IF AlreadyVisited(edgeKey, visited)
           THEN EndTrace("visited", line2, edges2, visited)
           ELSE IF OutOfGrid(nextRow, nextCol, Width, Height)
           THEN EndTrace("boundary", line2, edges2, visited \cup {edgeKey})
           ELSE /\ line' = line2
                /\ lineEdges' = edges2
                /\ visited' = visited \cup
                       MarkedKeys(edgeKey,
                                  <<nextEntryEdge, nextRow, nextCol>>)
                /\ trow' = nextRow /\ tcol' = nextCol
                /\ entryEdge' = nextEntryEdge
                /\ iterations' = iterations + 1
                /\ UNCHANGED <<pc, lines, linesEdges, stops, pendingKeys>>
    /\ UNCHANGED <<msg, outbox, pipelineVars, isoValue, row, col,
                   harnessVars>>

(***************************************************************************)
(* The worker                                                              *)
(***************************************************************************)
TracerNext ==
    \/ SkipCell
    \/ EnterCell
    \/ SkipKey
    \/ StartTrace
    \/ NextCell
    \/ ScanDone
    \/ TraceStep

Next ==
    \/ HandlePing
    \/ HandleUnknown
    \/ StartGenerate
    \/ BlurPass
    \/ ComputeRange
    \/ PlanLevel
    \/ LevelsDone
    \/ BeginLevel
    \/ TracerNext
    \/ FinishLevel
    \/ PostComplete
    \/ Return

Spec == Init /\ [][Next]_vars

(***************************************************************************)
(* traceContoursAtLevel on its own: any grid, any level                    *)
(***************************************************************************)
TraceGrids ==
    AllGrids(2, 2, SampleValues) \cup AllGrids(2, 3, SampleValues)
        \cup AllGrids(3, 3, FiniteValues)
        \cup {SlopeGrid, RampGrid, HoleGrid,
              IntGrid(<<<<5, 5>>, <<5, 5>>>>),
              IntGrid(<<<<5, 5, 5>>, <<5, 5, 5>>, <<5, 5, 5>>>>)}

TraceLevels == {RInt(-5), RInt(0), RInt(3), RInt(5), RInt(10), RInt(15)}

InitTrace ==
    /\ \E g \in TraceGrids :
        /\ msg = [type |-> "trace",
                  payload |-> [grid |-> g, width |-> Len(g[1]),
                               height |-> Len(g)]]
        /\ processedGrid = g
    /\ isoValue \in TraceLevels
    /\ pc = "scan" /\ outbox = <<>>
    /\ blurI = 0 /\ minZ = NaN /\ maxZ = NaN
    /\ levels = <<>> /\ elev = NaN /\ levelIdx = 0 /\ features = <<>>
    /\ visited = {} /\ lines = <<>> /\ linesEdges = <<>>
    /\ stops = <<>> /\ row = 0 /\ col = 0 /\ pendingKeys = <<>>
    /\ TraceIdle /\ HarnessIdle

SpecTrace == InitTrace /\ [][TracerNext]_vars

(***************************************************************************)
(* The level loop on its own, in double arithmetic: any range [minZ, maxZ] *)
(* of decimal samples, any positive interval                               *)
(***************************************************************************)
\* samples 1.0, 1.1, ..., 1.6 and 1.25, and intervals 0.1, 0.25, 0.5, 1
LevelSamples == {FDec(k, 10) : k \in 10 .. 16} \cup {FDec(5, 4)}
LevelIntervals == {FDec(1, 10), FDec(1, 4), FDec(1, 2), FFromInt(1)}

InitLevels ==
    /\ \E iv \in LevelIntervals : \E lo \in LevelSamples :
        /\ msg = [type |-> "generate-contours", payload |-> [interval |-> iv]]
        /\ minZ = lo
        /\ elev = MinLevel(lo, iv)
    /\ maxZ \in {hi \in LevelSamples : FLe(minZ, hi)}
    /\ pc = "levels" /\ outbox = <<>>
    /\ processedGrid = <<>> /\ blurI = 0
    /\ levels = <<>> /\ levelIdx = 0 /\ features = <<>>
    /\ TracerIdle /\ HarnessIdle

LevelsNext == PlanLevel \/ LevelsDone

SpecLevels == InitLevels /\ [][LevelsNext]_vars

(***************************************************************************)
(* The blur loop on its own, on grids of doubles                           *)
(***************************************************************************)
\* 2x2 grids over null, 0.1 and 10 and 2x3 grids over null and 0.1, blurred
\* once or twice
BlurSamples == {NULL, FDec(1, 10), FFromInt(10)}
BlurGrids ==
    AllGrids(2, 2, BlurSamples) \cup AllGrids(2, 3, {NULL, FDec(1, 10)})

InitBlur ==
    /\ \E g \in BlurGrids, n \in 1 .. 2 :
        /\ msg = [type |-> "generate-contours",
                  payload |-> [grid |-> g, width |-> Len(g[1]),
                               height |-> Len(g), blurPasses |-> n]]
        /\ processedGrid = g
    /\ blurI = 0 /\ pc = "blur" /\ outbox = <<>>
    /\ minZ = NaN /\ maxZ = NaN /\ levels = <<>> /\ elev = NaN
    /\ levelIdx = 0 /\ features = <<>>
    /\ TracerIdle /\ HarnessIdle

\* one pass of the blur loop
BlurPassF64 ==
    /\ pc = "blur"
    /\ blurI < P_blurPasses(msg.payload)
    /\ processedGrid' = blurGridF64(processedGrid, Width, Height)
    /\ blurI' = blurI + 1
    /\ UNCHANGED <<pc, msg, outbox, minZ, maxZ, levels, elev, levelIdx,
                   features, tracerVars, harnessVars>>

SpecBlur == InitBlur /\ [][BlurPassF64]_vars

(***************************************************************************)
(* simplifyDouglasPeucker on its own, on any line and tolerance; the        *)
(* smoothing loop below runs at most MaxSmooth times                       *)
(***************************************************************************)
\* most points in an input line, most calls of smoothChaikin
MaxPoints == 4
MaxSmooth == 2

\* lines with exact coordinates on a 3 x 2 lattice
LatticePoints == {<<RInt(x), RInt(y)>> : x \in 0 .. 2, y \in 0 .. 1}
LatticeLines == UNION {[1 .. n -> LatticePoints] : n \in 0 .. MaxPoints}
LatticeTolerances == {ZERO, Rat(3, 10), RInt(1)}

InitRefine ==
    /\ rPoints \in LatticeLines
    /\ rTolerance \in LatticeTolerances
    /\ rSimplified = <<>> /\ rSmoothed = <<>> /\ rIterations = 0
    /\ pc = "refine" /\ msg = NoMsg /\ outbox = <<>>
    /\ PipelineIdle /\ TracerIdle
    /\ mLines = <<>> /\ mThreshold = ZERO /\ mOnce = <<>> /\ mTwice = <<>>

\* simplifyDouglasPeucker(rPoints, rTolerance)
Simplify ==
    /\ pc = "refine"
    /\ rSimplified' = simplifyDouglasPeucker(rPoints, rTolerance)
    /\ pc' = "simplified"
    /\ UNCHANGED <<msg, outbox, pipelineVars, tracerVars, mLines, mThreshold,
                   mOnce, mTwice, rPoints, rTolerance, rSmoothed, rIterations>>

SpecRefine == InitRefine /\ [][Simplify]_vars

(***************************************************************************)
(* simplifyDouglasPeucker on its own, on points with double coordinates    *)
(***************************************************************************)
\* lines of three points with integer coordinates held as doubles, and as
\* tolerances the doubles 2^-53 and 0.3
DoublePoints ==
    {<<FFromInt(x), FFromInt(y)>> : x \in {0, 7, 25}, y \in {0, 1}}
DoubleLines == [1 .. 3 -> DoublePoints]
DoubleTolerances == {FPow2(-MantBits), FDec(3, 10)}

InitRefineF64 ==
    /\ rPoints \in DoubleLines
    /\ rTolerance \in DoubleTolerances
    /\ rSimplified = <<>> /\ rSmoothed = <<>> /\ rIterations = 0
    /\ pc = "refine" /\ msg = NoMsg /\ outbox = <<>>
    /\ PipelineIdle /\ TracerIdle
    /\ mLines = <<>> /\ mThreshold = ZERO /\ mOnce = <<>> /\ mTwice = <<>>

SimplifyF64 ==
    /\ pc = "refine"
    /\ rSimplified' = simplifyDouglasPeuckerF64(rPoints, rTolerance)
    /\ pc' = "simplified"
    /\ UNCHANGED <<msg, outbox, pipelineVars, tracerVars, mLines, mThreshold,
                   mOnce, mTwice, rPoints, rTolerance, rSmoothed, rIterations>>

SpecRefineF64 == InitRefineF64 /\ [][SimplifyF64]_vars

(***************************************************************************)
(* The smoothing loop of generateContours on its own, on one simplified    *)
(* line with exact coordinates                                             *)
(***************************************************************************)
SmoothPoints == {<<RInt(x), RInt(y)>> : x \in 0 .. 1, y \in 0 .. 1}
SmoothLines == UNION {[1 .. n -> SmoothPoints] : n \in 0 .. MaxPoints}
\* configurations without smoothIterations, and with 0 .. MaxSmooth
SmoothConfigs ==
    {[cellSize |-> RInt(1)]}
    \cup {[cellSize |-> RInt(1), smoothIterations |-> n] : n \in 0 .. MaxSmooth}

\* let result = line; i = 0
InitSmooth ==
    /\ rPoints \in SmoothLines
    /\ \E P \in SmoothConfigs : msg = [type |-> "generate-contours", payload |-> P]
    /\ rSmoothed = rPoints /\ rIterations = 0
    /\ rTolerance = ZERO /\ rSimplified = <<>>
    /\ pc = "smooth" /\ outbox = <<>>
    /\ PipelineIdle /\ TracerIdle
    /\ mLines = <<>> /\ mThreshold = ZERO /\ mOnce = <<>> /\ mTwice = <<>>

\* i < smoothIterations: result = smoothChaikin(result); i++
SmoothStep ==
    /\ pc = "smooth"
    /\ rIterations < P_smoothIterations(msg.payload)
    /\ rSmoothed' = smoothChaikin(rSmoothed)
    /\ rIterations' = rIterations + 1
    /\ UNCHANGED <<pc, msg, outbox, pipelineVars, tracerVars, mLines,
                   mThreshold, mOnce, mTwice, rPoints, rTolerance,
                   rSimplified>>

\* the loop is left: return result
SmoothDone ==
    /\ pc = "smooth"
    /\ rIterations >= P_smoothIterations(msg.payload)
    /\ pc' = "smoothed"
    /\ UNCHANGED <<msg, outbox, pipelineVars, tracerVars, harnessVars>>

SmoothNext == SmoothStep \/ SmoothDone

SpecSmooth == InitSmooth /\ [][SmoothNext]_vars

(***************************************************************************)
(* The smoothing loop on its own, on points with double coordinates        *)
(***************************************************************************)
\* lines of three points over 0, 0.1 and 0, 0.3
CurvePoints == {<<x, y>> : x \in {FZero, FDec(1, 10)}, y \in {FZero, FDec(3, 10)}}
CurveLines == [1 .. 3 -> CurvePoints]

InitSmoothF64 ==
    /\ rPoints \in CurveLines
    /\ rTolerance = ZERO
    /\ rSimplified = <<>> /\ rSmoothed = <<>> /\ rIterations = 0
    /\ pc = "refine" /\ msg = NoMsg /\ outbox = <<>>
    /\ PipelineIdle /\ TracerIdle
    /\ mLines = <<>> /\ mThreshold = ZERO /\ mOnce = <<>> /\ mTwice = <<>>

\* result = smoothChaikin(result)
SmoothStepF64 ==
    /\ pc \in {"refine", "smoothing"}
    /\ rIterations < MaxSmooth
    /\ rSmoothed' =
           smoothChaikinF64(IF pc = "refine" THEN rPoints ELSE rSmoothed)
    /\ rIterations' = rIterations + 1
    /\ pc' = "smoothing"
    /\ UNCHANGED <<msg, outbox, pipelineVars, tracerVars, mLines, mThreshold,
                   mOnce, mTwice, rPoints, rTolerance, rSimplified>>

SpecSmoothF64 == InitSmoothF64 /\ [][SmoothStepF64]_vars

(***************************************************************************)
(* mergeLineEndpoints on its own: any list of lines, applied twice         *)
(***************************************************************************)
\* most lines in a list
MaxLines == 3

\* lines of two points with endpoints on 0, 1, 2 of the x axis, and a line of
\* a single point
MergePoints == {<<RInt(x), ZERO>> : x \in 0 .. 2}
MergeLines ==
    {<<p, q>> : p \in MergePoints, q \in MergePoints}
        \cup {<<<<RInt(1), ZERO>>>>}
LineLists == UNION {[1 .. n -> MergeLines] : n \in 0 .. MaxLines}
Thresholds == {ZERO, RInt(1)}

InitMerge ==
    /\ pc = "merge" /\ msg = NoMsg /\ outbox = <<>>
    /\ PipelineIdle /\ TracerIdle
    /\ mLines \in LineLists
    /\ mThreshold \in Thresholds
    /\ mOnce = <<>> /\ mTwice = <<>>
    /\ RefinerIdle

MergeFirst ==
    /\ pc = "merge"
    /\ mOnce' = mergeLineEndpoints(mLines, mThreshold)
    /\ pc' = "merged"
    /\ UNCHANGED <<msg, outbox, pipelineVars, tracerVars, mLines, mThreshold,
                   mTwice, refinerVars>>

MergeAgain ==
    /\ pc = "merged"
    /\ mTwice' = mergeLineEndpoints(mOnce, mThreshold)
    /\ pc' = "remerged"
    /\ UNCHANGED <<msg, outbox, pipelineVars, tracerVars, mLines, mThreshold,
                   mOnce, refinerVars>>

MergeNext == MergeFirst \/ MergeAgain

SpecMerge == InitMerge /\ [][MergeNext]_vars

(***************************************************************************)
(* Properties                                                              *)
(***************************************************************************)
Generating == msg.type = "generate-contours"
Answered == pc = "done" /\ Generating
Reply == outbox[1]
Completed == Answered /\ Len(outbox) = 1 /\ Reply.type = "contours-complete"

Coords(f) == f.geometry.coordinates
Elevation(f) == f.properties.elevation
FeaturesAt(fs, v) == {i \in DOMAIN fs : Elevation(fs[i]) = v}

GridCells(g) == {g[r][c] : r \in DOMAIN g, c \in DOMAIN g[1]}
DimsMatch(P) == P.height = Len(P.grid) /\ P.width = Len(P.grid[1])

\* the end-to-end scenario of the 3x3 peak: cellSize 1, interval 5, no blur
PeakScenario(P) ==
    /\ P.grid = PeakGrid /\ DimsMatch(P)
    /\ P.cellSize = RInt(1)
    /\ P_interval(P) = 5
    /\ P_blurPasses(P) = 0

\* C1: for the 3x3 peak grid with cellSize 1, interval 5 and no blur, the
\* answer holds exactly one feature whose elevation is 5, and that feature is
\* a loop: its first and last coordinates are equal (with the default
\* tolerance it keeps all five crossings, smoothed, around the centre).
C1_PeakLoopAtLevel5 ==
    (Answered /\ PeakScenario(msg.payload)) =>
        /\ Completed
        /\ LET fs == Reply.payload.features
               at5 == FeaturesAt(fs, RInt(5))
           IN  /\ Cardinality(at5) = 1
               /\ \A i \in at5 :
                    /\ Len(Coords(fs[i])) >= 2
                    /\ Coords(fs[i])[1] = Coords(fs[i])[Len(Coords(fs[i]))]
                    /\ ("simplifyTolerance" \notin DOMAIN msg.payload
                            => Len(Coords(fs[i])) >= 5)

C1_Witness ==
    /\ Completed /\ PeakScenario(msg.payload)
    /\ msg.payload = Base(PeakGrid)
    /\ \E i \in FeaturesAt(Reply.payload.features, RInt(5)) :
         LET ln == Coords(Reply.payload.features[i])
         IN  Len(ln) = 20 /\ ln[1] = ln[20]
                /\ ln[1] = <<Rat(1, 2), RInt(1)>>

\* C2: in the same scenario the answer holds no feature with elevation 10
\* and no feature with elevation 0.
C2_NoFeatureAtLevel10Or0 ==
    (Answered /\ PeakScenario(msg.payload)) =>
        /\ Completed
        /\ \A i \in DOMAIN Reply.payload.features :
             Elevation(Reply.payload.features[i]) \notin {RInt(10), RInt(0)}

\* C3: every feature generateContours emits has a coordinate list of at
\* least 2 points.
C3_FeaturesHaveTwoPoints ==
    /\ \A i \in DOMAIN features : Len(Coords(features[i])) >= 2
    /\ Completed =>
         \A i \in DOMAIN Reply.payload.features :
             /\ Len(Coords(Reply.payload.features[i])) >= 2
             /\ Reply.payload.features[i].properties.pointCount >= 2

C3_Witness ==
    /\ Completed
    /\ \E i \in DOMAIN Reply.payload.features :
         Len(Coords(Reply.payload.features[i])) = 2
    /\ \E i \in DOMAIN Reply.payload.features :
         Len(Coords(Reply.payload.features[i])) > 2

HasRepeatedPoint(ln) == \E k \in 1 .. Len(ln) - 1 : ln[k] = ln[k + 1]

\* C4: no feature generateContours emits contains two consecutive identical
\* points, also for a level that equals a grid sample value.
C4_NoConsecutiveDuplicates ==
    \A i \in DOMAIN features : ~HasRepeatedPoint(Coords(features[i]))

\* C5: among the raw polylines of one level no cell edge is traced twice:
\* no edge (the two keys of a shared edge counted as one) has its crossing
\* point in two different lines.
C5_NoEdgeTracedTwice ==
    \A i \in DOMAIN linesEdges : \A j \in DOMAIN linesEdges :
        i # j =>
            \A a \in DOMAIN linesEdges[i] : \A b \in DOMAIN linesEdges[j] :
                linesEdges[i][a] # linesEdges[j][b]

\* all valid samples of the grid equal k
UniformGrid(g, k) == GridCells(g) \subseteq {NULL, k} /\ k \in GridCells(g)

\* C6: for a grid whose valid samples all equal one value k,
\* traceContoursAtLevel returns no line at any level v different from k.
C6_UniformGridNoLines ==
    \A k \in FiniteValues \cup {RInt(5)} :
        (UniformGrid(processedGrid, k) /\ isoValue # k) =>
            /\ lines = <<>>
            /\ line = <<>>

C6_Witness ==
    /\ pc = "post"
    /\ UniformGrid(processedGrid, RInt(10))
    /\ NULL \in GridCells(processedGrid)
    /\ Len(processedGrid[1]) = 3
    /\ isoValue = RInt(5)
    /\ lines = <<>>

AllZero(g) == GridCells(g) = {ZERO}

\* C7: for a grid whose samples are all 0 and interval 5, generateContours
\* returns an empty feature list and elevationRange [0, 0].
C7_FlatGridEmpty ==
    (Answered /\ AllZero(msg.payload.grid) /\ DimsMatch(msg.payload)
              /\ P_interval(msg.payload) = 5) =>
        /\ Completed
        /\ Reply.payload.features = <<>>
        /\ Reply.payload.metadata.elevationRange = <<ZERO, ZERO>>

C7_Witness ==
    /\ Completed /\ AllZero(msg.payload.grid)
    /\ Len(msg.payload.grid) = 3
    /\ P_interval(msg.payload) = 5 /\ P_blurPasses(msg.payload) = 1
    /\ Reply.payload.features = <<>>
    /\ Reply.payload.metadata.elevationRange = <<ZERO, ZERO>>
    /\ levels = <<ZERO>>

\* C8: mergeLineEndpoints is idempotent: merging the merged lines again with
\* the same threshold returns the same lines, in the same order, with the
\* same points.
C8_MergeIdempotent == pc = "remerged" => mTwice = mOnce

C8_Witness ==
    /\ pc = "remerged"
    /\ Len(mLines) = 3 /\ Len(mOnce) = 2
    /\ mTwice = mOnce
    /\ \E i \in DOMAIN mOnce : Len(mOnce[i]) >= 3

AllNull(g) == GridCells(g) = {NULL}

\* C9: when the grid holds no finite non-null sample, generateContours
\* throws the empty-grid error before any level is planned or traced, and
\* the only message posted is that error: no feature collection.
C9_EmptyGridError ==
    (Generating /\ AllNull(msg.payload.grid) /\ DimsMatch(msg.payload)) =>
        /\ pc \in {"blur", "done"}
        /\ levels = <<>> /\ features = <<>> /\ lines = <<>>
        /\ pc = "blur" => outbox = <<>>
        /\ pc = "done" =>
             outbox = <<ErrorMsg("No valid elevation data in grid")>>

C9_Witness ==
    /\ Answered /\ AllNull(msg.payload.grid)
    /\ P_blurPasses(msg.payload) = 1 /\ blurI = 1
    /\ outbox = <<ErrorMsg("No valid elevation data in grid")>>

InvalidConfiguration(P) == P_interval(P) <= 0 \/ ~DimsMatch(P)

\* C10: a configuration with a non-positive interval, or with a grid whose
\* dimensions differ from width and height, is rejected with an error before
\* tracing begins: no level is planned or traced, and the answer is an error.
C10_InvalidConfigurationRejected ==
    (Generating /\ InvalidConfiguration(msg.payload)) =>
        /\ pc \in {"blur", "done"}
        /\ levels = <<>>
        /\ pc = "done" => (Len(outbox) = 1 /\ Reply.type = "error")

\* C11: for a positive interval and a valid range [minZ, maxZ] the planned
\* levels start at floor(minZ / interval) * interval, each next level is the
\* one before plus interval, and they run up to and including
\* ceil(maxZ / interval) * interval: one level for every multiple from the
\* floor to the ceiling, so at least one.
C11_LevelsClosedRange ==
    pc = "forLevel" =>
        LET iv == P_interval(msg.payload)
            first == FFloor(FDiv(minZ, iv))
            last == FCeil(FDiv(maxZ, iv))
        IN  /\ Len(levels) = last - first + 1
            /\ levels[1] = FMul(FFromInt(first), iv)
            /\ \A k \in 1 .. Len(levels) - 1 :
                   levels[k + 1] = FAdd(levels[k], iv)

\* a is b with some elements left out, the others in their order
RECURSIVE IsSubsequence(_, _)
IsSubsequence(a, b) ==
    IF a = <<>> THEN TRUE
    ELSE IF b = <<>> THEN FALSE
    ELSE IF Head(a) = Head(b) THEN IsSubsequence(Tail(a), Tail(b))
    ELSE IsSubsequence(a, Tail(b))

\* C12: simplifyDouglasPeucker returns a subsequence of its input, in the
\* input's order, that keeps the first and the last input point; so the
\* simplified line has at most as many points as the line it was given.
C12_SimplifySubsequence ==
    pc = "simplified" =>
        /\ IsSubsequence(rSimplified, rPoints)
        /\ Len(rSimplified) <= Len(rPoints)
        /\ rPoints # <<>> =>
               /\ rSimplified # <<>>
               /\ rSimplified[1] = rPoints[1]
               /\ rSimplified[Len(rSimplified)] = rPoints[Len(rPoints)]

\* a line of four points simplified to three: one inner point kept at a
\* split, one dropped
C12_Witness ==
    /\ pc = "simplified"
    /\ Len(rPoints) = MaxPoints
    /\ Len(rSimplified) = MaxPoints - 1

\* the points of a line of integer-valued doubles, as pairs of integers
ExactPoints(points) ==
    [k \in 1 .. Len(points) |-> <<FFloor(points[k][1]), FFloor(points[k][2])>>]

\* the points lie on one straight line in the order of the sequence: every
\* three of them are collinear and the middle one does not turn back
CollinearInOrder(pts) ==
    \A i, j, k \in 1 .. Len(pts) :
        (i < j /\ j < k) =>
            LET ux == pts[j][1] - pts[i][1]
                uy == pts[j][2] - pts[i][2]
                vx == pts[k][1] - pts[j][1]
                vy == pts[k][2] - pts[j][2]
            IN  /\ ux * vy - uy * vx = 0
                /\ ux * vx + uy * vy >= 0

\* C13: a line of three or more points that lie in order on one straight
\* line, simplified with any positive tolerance, comes back as exactly its
\* first and its last point.
C13_CollinearCollapses ==
    (/\ pc = "simplified"
     /\ Len(rPoints) >= 3
     /\ CollinearInOrder(ExactPoints(rPoints))
     /\ FGt(rTolerance, FZero)) =>
        rSimplified = <<rPoints[1], rPoints[Len(rPoints)]>>

\* the request asks for no blur pass
NoBlur(P) == "blurPasses" \in DOMAIN P /\ P.blurPasses = 0

\* C14: with blurPasses = 0 the grid that the range computation and the
\* tracing read is the input grid, element by element, from the start of the
\* request to its answer.
C14_NoBlurIsIdentity ==
    (Generating /\ NoBlur(msg.payload)) => processedGrid = msg.payload.grid

\* a request without blur on a grid that is not flat has been traced and
\* answered with contours
C14_Witness ==
    /\ Completed
    /\ NoBlur(msg.payload)
    /\ msg.payload.grid = PeakGrid
    /\ Reply.payload.features # <<>>

\* the cells a blurred cell averages: itself and its neighbours inside the
\* grid that hold a value
Averaged(g, r, c) ==
    {k \in (-1 .. 1) \X (-1 .. 1) :
        /\ r + k[1] \in 0 .. Len(g) - 1
        /\ c + k[2] \in 0 .. Len(g[1]) - 1
        /\ At(g, r + k[1], c + k[2]) # NULL}

\* one blur pass turned grid `before` into grid `after`: same dimensions,
\* no-data cells unchanged, and where the averaged cells of a valid cell all
\* hold the same value k (weighted mean k) the cell is k
BlurredFrom(before, after) ==
    /\ Len(after) = Len(before)
    /\ \A r \in 0 .. Len(before) - 1 :
        /\ Len(after[r + 1]) = Len(before[r + 1])
        /\ \A c \in 0 .. Len(before[1]) - 1 :
            /\ At(before, r, c) = NULL => At(after, r, c) = NULL
            /\ At(before, r, c) # NULL =>
                   /\ At(after, r, c) # NULL
                   /\ \A k \in BlurSamples \ {NULL} :
                          (\A n \in Averaged(before, r, c) :
                               At(before, r + n[1], c + n[2]) = k) =>
                              At(after, r, c) = k

\* C15: one pass of blurGrid returns a grid of the same dimensions in which
\* no-data cells are unchanged and every valid cell is the weighted mean,
\* with the kernel weights 1 2 1 / 2 4 2 / 1 2 1, of itself and its valid
\* neighbours inside the grid; in particular a cell whose averaged cells all
\* equal k is k, so a grid whose valid cells all equal k blurs to itself.
C15_BlurIsWeightedMean ==
    (pc = "blur" /\ blurI = 1) => BlurredFrom(msg.payload.grid, processedGrid)

\* exact arithmetic on the values of doubles: <<m, e, s>> is s * m * 2^e with
\* a mantissa of any length, and no result is rounded
ExactSum(x, y) ==
    LET e == FMinExp(x, y)
        a == FScaled(x, e)
        b == FScaled(y, e)
    IN  IF x[3] = y[3] THEN <<BAdd(a, b), e, x[3]>>
        ELSE IF BCmp(a, b) >= 0 THEN <<BSub(a, b), e, x[3]>>
        ELSE <<BSub(b, a), e, y[3]>>
ExactDiff(x, y) == ExactSum(x, <<y[1], y[2], -y[3]>>)
ExactProd(x, y) == <<BMul(x[1], y[1]), x[2] + y[2], x[3] * y[3]>>
ExactSign(x) == IF BTrim(x[1]) = <<>> THEN 0 ELSE x[3]

\* the sign of (b - a) x (p - a): 1 when p is to the left of the line from a
\* to b, 0 when on it, -1 when to the right
Side(a, b, p) ==
    ExactSign(ExactDiff(
        ExactProd(ExactDiff(b[1], a[1]), ExactDiff(p[2], a[2])),
        ExactProd(ExactDiff(b[2], a[2]), ExactDiff(p[1], a[1]))))

\* p is inside the axis-aligned bounding box of the points S
InBox(p, S) ==
    \A d \in 1 .. 2 :
        /\ \E s \in S : FLe(s[d], p[d])
        /\ \E s \in S : FLe(p[d], s[d])

\* p is inside the convex hull of the points S: inside their bounding box and
\* on the inner side of every line through two of them that has all of S on
\* one side
InHull(p, S) ==
    /\ InBox(p, S)
    /\ \A a, b \in S :
           (a # b /\ \A s \in S : Side(a, b, s) >= 0) => Side(a, b, p) >= 0

Points(ln) == {ln[k] : k \in DOMAIN ln}

\* C16: after any number of Chaikin iterations every point of the smoothed
\* line lies inside the convex hull, and so inside the bounding box, of the
\* points the line had before smoothing.
C16_SmoothedInsideHull ==
    pc = "smoothing" =>
        \A k \in DOMAIN rSmoothed : InHull(rSmoothed[k], Points(rPoints))

\* every smoothed point is inside the bounding box of the line's points
SmoothedInsideBox ==
    pc = "smoothing" =>
        \A k \in DOMAIN rSmoothed : InBox(rSmoothed[k], Points(rPoints))

IsPrefix(a, b) == Len(a) <= Len(b) /\ SubSeq(b, 1, Len(a)) = a

\* no feature of a higher level precedes a feature of a lower level
Ascending(fs) ==
    \A i, j \in DOMAIN fs :
        i < j => RLe(Elevation(fs[i]), Elevation(fs[j]))

\* a step that pushes features: the features pushed before stay in front, the
\* new ones are at the level just traced, and when no two lines of the level
\* were merged the k-th new feature runs between the end points of the k-th
\* line discovered
PushedInOrder ==
    LET old == Len(features)
        n == Len(features') - old
    IN  /\ IsPrefix(features, features')
        /\ Ascending(features')
        /\ \A k \in 1 .. n :
               LET f == features'[old + k]
               IN  /\ Elevation(f) = isoValue
                   /\ n = Len(lines) =>
                          /\ Coords(f)[1] = ToWorld(msg.payload, lines[k][1])
                          /\ Coords(f)[Len(Coords(f))] =
                                 ToWorld(msg.payload, lines[k][Len(lines[k])])

\* C17: the features are ordered by ascending level, and within a level in
\* the order in which their lines were discovered: every push appends the
\* level's features, in the order of its lines, behind the features of the
\* lower levels.
C17_FeaturesByLevelThenDiscovery ==
    [][(features' # features /\ features' # <<>>) => PushedInOrder]_vars

\* an answer with two different features of one level and a feature of
\* another level
C17_Witness ==
    /\ Completed
    /\ \E i, j, k \in DOMAIN features :
        /\ i < j
        /\ Elevation(features[i]) = Elevation(features[j])
        /\ Coords(features[i]) # Coords(features[j])
        /\ Elevation(features[k]) # Elevation(features[i])

\* maxIterations of the trace under way
MaxIterations == Width * Height * 2

\* C18: every iteration of the trace loop either stops the trace or marks an
\* edge key that was not yet visited; a trace never runs more than
\* 2 * width * height iterations, and neither the line under way nor any line
\* returned has more than 2 * width * height points.
C18_TraceBounded ==
    [][pc = "trace" =>
          /\ \/ pc' = "keys"
             \/ /\ pc' = "trace"
                /\ visited \subseteq visited' /\ visited' # visited
                /\ iterations' = iterations + 1
                /\ iterations' <= MaxIterations
                /\ Len(line') <= iterations'
          /\ \A k \in DOMAIN lines' : Len(lines'[k]) <= MaxIterations]_vars

\* a trace that has gone through four iterations and is still under way
C18_Witness ==
    /\ pc = "trace"
    /\ iterations >= 4
    /\ Len(line) = iterations

\* a saddle cell: no corner is missing and the level crosses all four edges
\* (diagonal corners on the same side of the level)
IsSaddle(q, v) ==
    /\ ~HasNullCorner(q)
    /\ \A e \in {"T", "R", "B", "L"} : HasCrossing(q, v, e)

\* C19: in a saddle cell the exit rule pairs the four edges: when a trace
\* that enters by edge X leaves by edge Y, a trace that enters by Y leaves
\* by X.
C19_SaddlePairsEdges ==
    (pc = "trace" /\ IsSaddle(Corners(processedGrid, trow, tcol), isoValue)) =>
        LET q == Corners(processedGrid, trow, tcol)
            exitEdge == ExitEdge(q, isoValue, entryEdge)
        IN  ExitEdge(q, isoValue, exitEdge) = entryEdge

\* the key of the same edge seen from the cell on its other side
NeighbourKey(key) ==
    <<NextEntryEdge(key[1]), NextRow(key[2], key[1]), NextCol(key[3], key[1])>>

\* the edge of this key is shared with a cell inside the grid
IsInterior(key) ==
    ~OutOfGrid(NeighbourKey(key)[2], NeighbourKey(key)[3], Width, Height)

\* C20: marking is symmetric: at every moment of the tracing of a level, an
\* edge shared by two cells of the grid has both of its keys in the visited
\* set or neither.
C20_VisitedSymmetric ==
    \A key \in visited : IsInterior(key) => NeighbourKey(key) \in visited

\* between two traces of a level, with a line already returned, some interior
\* edge has both of its keys marked
C20_Witness ==
    /\ pc = "keys"
    /\ lines # <<>>
    /\ \E key \in visited : IsInterior(key) /\ NeighbourKey(key) \in visited

\* the crossing point of the edge a trace under way was started from: the
\* start key is the head of pendingKeys, its cell the cell being scanned
StartCrossing ==
    Crossing(Corners(processedGrid, row, col), isoValue, row, col,
             Head(pendingKeys)[1])

\* C21: a trace starts at its start edge with no prior entry side: the start
\* edge is not treated as an edge entered from, so the crossing point of the
\* start edge belongs to the line the trace returns.
C21_StartCrossingOnLine ==
    [][(pc = "trace" /\ pc' = "keys" /\ lines' # lines) =>
          StartCrossing \in Points(lines'[Len(lines')])]_vars

\* the cell (r, c) has a no-data corner
NoDataCell(r, c) ==
    \E i, j \in 0 .. 1 : At(processedGrid, r + i, c + j) = NULL

\* the line a step of the trace returns to traceContoursAtLevel, when it
\* ends the trace and the line is kept
Returned == lines'[Len(lines')]

\* the point a step of the trace adds: to the line under way, or to the line
\* it returns
AddedPoint ==
    IF pc' = "trace" THEN line'[Len(line')] ELSE Returned[Len(Returned)]
AddsPoint ==
    \/ pc' = "trace" /\ Len(line') > Len(line)
    \/ pc' = "keys" /\ lines' # lines /\ Len(Returned) > Len(line)

\* C22: cells with a no-data corner emit nothing: no trace starts in such a
\* cell, a trace that is in such a cell ends there with the line it had, and
\* every point added to a line is a crossing of an edge of a cell whose four
\* corners are defined.
C22_NoDataCellsEmitNothing ==
    [][/\ (pc = "keys" /\ pc' = "trace") => ~NoDataCell(row, col)
       /\ (pc = "trace" /\ NoDataCell(trow, tcol)) =>
              /\ pc' = "keys"
              /\ ~AddsPoint
              /\ lines' # lines => Returned = line
       /\ (pc = "trace" /\ AddsPoint) =>
              /\ ~NoDataCell(trow, tcol)
              /\ \E e \in {"T", "R", "B", "L"} :
                     /\ HasCrossing(Corners(processedGrid, trow, tcol),
                                    isoValue, e)
                     /\ AddedPoint = Crossing(Corners(processedGrid, trow,
                                                      tcol),
                                              isoValue, trow, tcol, e)]_vars

\* a trace has run into a cell with a no-data corner and returned a line
C22_Witness ==
    /\ pc = "keys"
    /\ stops # <<>>
    /\ stops[Len(stops)] = "nodata"
    /\ Len(lines) = 1

\* the configuration gives a simplifyTolerance (null is the value of a
\* tolerance that is not given)
ToleranceGiven(P) ==
    "simplifyTolerance" \in DOMAIN P /\ P.simplifyTolerance # NULL

\* C23: when the lines of a level are simplified, the tolerance is
\* simplifyTolerance if the configuration gives one, the value 0 included,
\* and 0.3 * cellSize only if it gives none.
C23_ToleranceAsGiven ==
    (Generating /\ pc = "post") =>
        Tolerance(msg.payload) =
            IF ToleranceGiven(msg.payload) THEN msg.payload.simplifyTolerance
            ELSE RMul(msg.payload.cellSize, Rat(3, 10))

\* the point at t/4 of the way from p0 to p1
QuarterPoint(p0, p1, t) ==
    <<RAdd(p0[1], RDiv(RMul(RInt(t), RSub(p1[1], p0[1])), RInt(4))),
      RAdd(p0[2], RDiv(RMul(RInt(t), RSub(p1[2], p0[2])), RInt(4)))>>

\* new is old after one Chaikin iteration: unchanged below three points,
\* else the first point, the 1/4 and 3/4 points of every edge in order, and
\* the last point
ChaikinOf(old, new) ==
    IF Len(old) < 3 THEN new = old
    ELSE /\ Len(new) = 2 * Len(old)
         /\ new[1] = old[1]
         /\ new[Len(new)] = old[Len(old)]
         /\ \A i \in 1 .. Len(old) - 1 :
                /\ new[2 * i] = QuarterPoint(old[i], old[i + 1], 1)
                /\ new[2 * i + 1] = QuarterPoint(old[i], old[i + 1], 3)

\* the iterations the configuration asks for: smoothIterations, 2 if absent
AskedIterations(P) ==
    IF "smoothIterations" \in DOMAIN P THEN P.smoothIterations ELSE 2

\* C24: one Chaikin iteration keeps the first and last point and replaces
\* every edge by its 1/4 and 3/4 points (2n points for n >= 3 points), and
\* leaves a line of fewer than 3 points unchanged; the smoothing loop runs
\* exactly smoothIterations iterations (2 by default), so a line of n >= 3
\* points leaves it with n * 2^smoothIterations points.
C24_ChaikinDoublesPoints ==
    [][/\ rIterations' # rIterations => ChaikinOf(rSmoothed, rSmoothed')
       /\ pc' = "smoothed" =>
              /\ rIterations' = AskedIterations(msg.payload)
              /\ Len(rSmoothed') =
                     IF Len(rPoints) >= 3
                     THEN Len(rPoints) * 2 ^ AskedIterations(msg.payload)
                     ELSE Len(rPoints)]_vars

\* a line of four points has left the default two iterations with 16 points
C24_Witness ==
    /\ pc = "smoothed"
    /\ "smoothIterations" \notin DOMAIN msg.payload
    /\ Len(rPoints) = MaxPoints
    /\ Len(rSmoothed) = 4 * MaxPoints
    /\ rSmoothed[2] # rSmoothed[1]

\* the points of all lines returned for the level
TracedPoints == UNION {Points(lines[k]) : k \in DOMAIN lines}

\* C25: when traceContoursAtLevel returns, the crossing point of every
\* crossing edge of every cell with four defined corners is on one of the
\* returned lines; so a contour from border to border has the crossing
\* points of both border edges.
C25_EveryCrossingTraced ==
    pc = "post" =>
        \A r \in 0 .. Height - 2 : \A c \in 0 .. Width - 2 :
            ~NoDataCell(r, c) =>
                \A e \in {"T", "R", "B", "L"} :
                    HasCrossing(Corners(processedGrid, r, c), isoValue, e) =>
                        Crossing(Corners(processedGrid, r, c), isoValue, r, c,
                                 e) \in TracedPoints

\* the types of answer the handler may post for a message
AnswerTypes(m) ==
    IF m.type = "ping" THEN {"pong"}
    ELSE IF m.type = "generate-contours" THEN {"contours-complete", "error"}
    ELSE {"error"}

\* the handler is over and has posted exactly one message, of the right type
AnsweredOnce ==
    /\ pc = "done"
    /\ Len(outbox) = 1
    /\ outbox[1].type \in AnswerTypes(msg)

\* the level loop counts down from a level that is not above maxLevel: its
\* condition holds at every later iteration, and generateContours never
\* returns nor throws
NeverReturns ==
    /\ pc = "levels"
    /\ P_interval(msg.payload) < 0
    /\ LevelLe(elev, MaxLevel(maxZ, P_interval(msg.payload)))

\* C26: every received message is answered with exactly one posted message:
\* 'pong' for 'ping', 'contours-complete' or 'error' for 'generate-contours',
\* 'error' for any other type; nothing is posted before the handler ends, the
\* handler does end, and between two messages the worker holds no state of
\* the earlier one.
C26_EveryMessageAnswered ==
    /\ pc = "done" => AnsweredOnce
    /\ pc \notin {"idle", "done"} => outbox = <<>> /\ ~NeverReturns
    /\ pc = "idle" => msg = NoMsg /\ outbox = <<>> /\ PipelineIdle
                      /\ TracerIdle

\* some sample is below the level v and some sample is at or above it: the
\* case test finds a crossed cell at v where two such samples are neighbours,
\* as around the top of a grid that rises from minZ to maxZ
Crossed(v) == FLt(minZ, v) /\ FLe(v, maxZ)

\* maxZ is a whole number of intervals
MaxIsMultiple ==
    LET iv == P_interval(msg.payload)
    IN  \E k \in {FFloor(FDiv(maxZ, iv)), FCeil(FDiv(maxZ, iv))} :
            FMul(FFromInt(k), iv) = maxZ

\* C27: a level carries a feature only if it is above minZ and not above
\* maxZ; so the lowest planned level carries none, and the highest planned
\* level carries one only when maxZ is a whole number of intervals.
C27_FeaturesInsideRange ==
    (pc = "forLevel" /\ levels # <<>>) =>
        /\ ~Crossed(levels[1])
        /\ Crossed(levels[Len(levels)]) => MaxIsMultiple

\* C28: at every step of every trace the current cell is a cell of the grid,
\* 0 <= row <= height - 2 and 0 <= col <= width - 2, so each of its four
\* corners grid[row][col], grid[row][col + 1], grid[row + 1][col + 1],
\* grid[row + 1][col] is a sample of the grid.
C28_TraceStaysInGrid ==
    pc = "trace" =>
        /\ 0 <= trow /\ trow <= Height - 2
        /\ 0 <= tcol /\ tcol <= Width - 2
        /\ \A rc \in {<<trow, tcol>>, <<trow, tcol + 1>>,
                       <<trow + 1, tcol + 1>>, <<trow + 1, tcol>>} :
               /\ rc[1] + 1 \in DOMAIN processedGrid
               /\ rc[2] + 1 \in DOMAIN processedGrid[rc[1] + 1]

\* a trace has moved into a cell of the last row or column, and an earlier
\* trace of the level was stopped at the grid boundary
C28_Witness ==
    /\ pc = "trace" /\ iterations > 0
    /\ trow = Height - 2 \/ tcol = Width - 2
    /\ \E k \in DOMAIN stops : stops[k] = "boundary"

\* C29: at every step of a trace in a cell with four defined corners the
\* entry edge is a crossing edge of the cell and another crossing edge
\* exists, so no trace stops for want of an exit edge: a trace ends at a
\* no-data cell, at the grid boundary, at a visited edge or at the cap.
C29_ExitAlwaysExists ==
    /\ \A k \in DOMAIN stops :
           stops[k] \in {"nodata", "boundary", "visited", "cap"}
    /\ pc = "trace" =>
           LET q == Corners(processedGrid, trow, tcol)
           IN  ~HasNullCorner(q) =>
                   /\ HasCrossing(q, isoValue, entryEdge)
                   /\ CrossingEdges(q, isoValue, entryEdge) # <<>>

\* a trace has moved into a second cell with defined corners after earlier
\* traces of the level have ended at the boundary and at a visited edge
C29_Witness ==
    /\ pc = "trace" /\ iterations > 0
    /\ ~HasNullCorner(Corners(processedGrid, trow, tcol))
    /\ \E k \in DOMAIN stops : stops[k] = "boundary"
    /\ \E k \in DOMAIN stops : stops[k] = "visited"

\* the number of points of all lines of a list
RECURSIVE TotalPoints(_)
TotalPoints(lns) ==
    IF lns = <<>> THEN 0 ELSE Len(Head(lns)) + TotalPoints(Tail(lns))

\* the first and last points of the lines of a list
Endpoints(lns) ==
    UNION {{lns[k][1], lns[k][Len(lns[k])]} : k \in DOMAIN lns}

\* the merges that turned the list input into the list output: every merge
\* takes one line out of the list
Merges(input, output) == Len(input) - Len(output)

\* output is input with every line used once: a merge drops one line and one
\* point, and the ends of the output lines are ends of input lines
Consumed(input, output) ==
    (\A k \in DOMAIN input : input[k] # <<>>) =>
        /\ Merges(input, output) >= 0
        /\ input # <<>> => output # <<>>
        /\ TotalPoints(output) = TotalPoints(input) - Merges(input, output)
        /\ \A k \in DOMAIN output : output[k] # <<>>
        /\ Endpoints(output) \subseteq Endpoints(input)

\* C30: mergeLineEndpoints uses every input line exactly once: for non-empty
\* input lines the output has one line less and one point less for every
\* merge, and both endpoints of every output line are endpoints of input
\* lines.
C30_MergeConsumesEachLineOnce ==
    /\ pc \in {"merged", "remerged"} => Consumed(mLines, mOnce)
    /\ pc = "remerged" => Consumed(mOnce, mTwice)

\* three lines became two: one merge and one line left alone
C30_Witness ==
    /\ pc = "merged"
    /\ Len(mLines) = 3 /\ Len(mOnce) = 2
    /\ TotalPoints(mLines) = 6 /\ TotalPoints(mOnce) = 5

====
